---- MODULE Spec2Model ----
(***************************************************************************)
(* A model of lox/httpcache.                                               *)
(*                                                                         *)
(* Part I   - package storage: the capped LRU list and the memory and disk *)
(*            backends built on it (storage/lru.go, storage/disk.go,       *)
(*            storage/storable.go, MemoryStorage).                         *)
(* Part II  - the cache coordinator: the vfs-backed Cache with its map of  *)
(*            stale markers (Store, Retrieve, Invalidate, Freshen).        *)
(* Part III - the request pipeline: Handler.ServeHTTP with lookup,         *)
(*            freshness, validation, serve, pass and pipe, the Validator,  *)
(*            the asynchronous store and an origin server.                 *)
(***************************************************************************)
EXTENDS Integers, Sequences, FiniteSets, TLC

(***************************************************************************)
(* Bounds of the model.                                                    *)
(***************************************************************************)
\* length, in bytes, of the non-empty body a caller hands to Store
MaxBody == 2
\* the byte capacity of a capped storage
MaxCapacity == 4

(***************************************************************************)
(* Small helpers.                                                          *)
(***************************************************************************)
Min(a, b) == IF a < b THEN a ELSE b

Max(a, b) == IF a > b THEN a ELSE b

Range(s) == {s[i] : i \in 1..Len(s)}

RemoveAt(s, i) ==
    IF i > Len(s) \/ i < 1 THEN s
    ELSE SubSeq(s, 1, i - 1) \o SubSeq(s, i + 1, Len(s))

(***************************************************************************)
(* Part I.  package storage                                                *)
(***************************************************************************)
VARIABLES
    backend,    \* "memory" (MemoryStorage) or "disk" (DiskStorage)
    capacity,   \* CappedLRUList.capacity
    list,       \* LRUList.list: the entries, front (most recently used) first
    table,      \* LRUList.table: the keys that map to a list element
    size,       \* CappedLRUList.size: the tracked total size
    files,      \* disk backend: contents of the file at keyPath(key)
    hung,       \* TRUE when trim() spins on an empty list
    last,       \* the latest call: its name, key, argument and outcome
    recency,    \* keys in order of their last use, most recent first
    goroutines  \* the calls in progress when callers run concurrently: where each is

storageVars == <<backend, capacity, list, table, size, files, hung, recency, goroutines>>

VARIABLES
    clock,       \* Clock(): the current instant, in whole seconds
    bodyFiles,   \* Cache.fs: the files under body/, by key
    headerFiles, \* Cache.fs: the files under header/, by key
    stale,       \* Cache.stale: the instant a key was marked stale
    pending,     \* the store goroutines that storeResource started and that have not run yet
    upstream,    \* the origin server: how it answers and the version of its content
    hShared,     \* Handler.Shared
    marked       \* history: per key, the instant of the latest Invalidate that no Store has followed

cacheVars == <<clock, bodyFiles, headerFiles, stale, pending, upstream, hShared, marked>>

\* storage/lru.go:104
UnboundedCapacity == 0

\* the keys callers use; len(key) differs between them
StorageKeys == {"a", "bb", "ccc"}

\* len(key) of lruEntry.Size and CappedLRUList.Add / Delete
KeyLen(k) == CASE k = "a" -> 1 [] k = "bb" -> 2 [] k = "ccc" -> 3 [] OTHER -> 0

\* the byte value bodies are made of ("x" in the storage tests)
Bytes == {1}

\* the bodies callers store: the empty one and MaxBody copies of one byte
Bodies == {[i \in 1..n |-> b] : n \in {0, MaxBody}, b \in Bytes}

\* status code and http.Header of the storables handed to Store and Freshen: the
\* header holds a Content-Length (absent, or one integer value) and the X-Test
\* header of the storage tests
StorageMetas ==
    { [statusCode |-> 200, header |-> [ContentLength |-> <<>>,  XTest |-> <<"llamas">>]],
      [statusCode |-> 404, header |-> [ContentLength |-> <<1>>, XTest |-> <<"alpacas">>]] }

\* byteStorable{body, header, statusCode}
NewByteStorable(body, status, h) ==
    [kind |-> "byte", body |-> body, header |-> h, statusCode |-> status]

\* fileStorable{path, size, header, statusCode}; the path stands for the key it hashes
NewFileStorable(path, n, h, status) ==
    [kind |-> "file", path |-> path, size |-> n, header |-> h, statusCode |-> status]

\* the storables callers construct (testStorable)
Storables == {NewByteStorable(b, m.statusCode, m.header) : b \in Bodies, m \in StorageMetas}

\* Storable.Size(): len(body) of a byteStorable, the recorded size of a fileStorable
StorableSize(s) == IF s.kind = "byte" THEN Len(s.body) ELSE s.size

\* Storable.Reader() read to the end: the bytes a reader of s sees in files f
ReadAll(s, f) == IF s.kind = "byte" THEN s.body ELSE f[s.path]

\* lruEntry.Size(): the storable's size plus len(key)
EntrySize(e) == StorableSize(e.storable) + KeyLen(e.key)

\* io.CopyN(dst, src, n): copies n bytes, EOF when src is shorter, nothing when n <= 0
CopyN(src, n) ==
    LET w == IF n <= 0 THEN 0 ELSE Min(n, Len(src)) IN
    [n |-> w, data |-> SubSeq(src, 1, w), err |-> w < n]

\* a faulty StorableCopy that copies to the end whatever Content-Length says
StorableCopyToEOF(s) ==
    [n |-> Len(ReadAll(s, files)), data |-> ReadAll(s, files), err |-> FALSE]

\* StorableCopy: copies Content-Length bytes when the header parses, else all of it
StorableCopy(s) ==
    IF s.header.ContentLength # <<>>
    THEN CopyN(ReadAll(s, files), s.header.ContentLength[1])
    ELSE [n |-> Len(ReadAll(s, files)), data |-> ReadAll(s, files), err |-> FALSE]

\* position of key in a list of entries, 0 when absent
RECURSIVE IndexOf(_, _)
IndexOf(l, key) ==
    IF l = <<>> THEN 0
    ELSE IF l[1].key = key THEN 1
    ELSE LET r == IndexOf(Tail(l), key) IN IF r = 0 THEN 0 ELSE r + 1

\* a faulty LRUList.Get that leaves the element where it is
LRUGetNoMove(l, t, key) ==
    IF key \in t
    THEN [list |-> l, found |-> TRUE, storable |-> l[IndexOf(l, key)].storable]
    ELSE [list |-> l, found |-> FALSE, storable |-> <<>>]

\* LRUList.Get: the entry becomes the most recently used
LRUGet(l, t, key) ==
    IF key \in t
    THEN LET i == IndexOf(l, key) IN
         [list |-> <<l[i]>> \o RemoveAt(l, i), found |-> TRUE, storable |-> l[i].storable]
    ELSE [list |-> l, found |-> FALSE, storable |-> <<>>]

\* LRUList.Add: PushFront and table[key] = element
LRUAdd(l, t, key, s) ==
    [list |-> <<[key |-> key, storable |-> s]>> \o l, table |-> t \cup {key}]

\* LRUList.Delete: remove the element the table maps key to
LRUDelete(l, t, key) ==
    IF key \in t
    THEN [list |-> RemoveAt(l, IndexOf(l, key)), table |-> t \ {key}]
    ELSE [list |-> l, table |-> t]

\* LRUList.Keys: most recently used first
LRUKeys(l) == [i \in 1..Len(l) |-> l[i].key]

\* CappedLRUList.Delete: Get, then LRUList.Delete and size -= entry size
CappedDelete(l, t, sz, key) ==
    LET g == LRUGet(l, t, key) IN
    IF g.found
    THEN LET d == LRUDelete(g.list, t, key) IN
         [list |-> d.list, table |-> d.table,
          size |-> sz - (StorableSize(g.storable) + KeyLen(key))]
    ELSE [list |-> l, table |-> t, size |-> sz]

\* CappedLRUList.trim: while size > capacity delete Oldest(); with an empty list
\* Oldest() yields "" and the loop never ends
RECURSIVE Trim(_, _, _, _)
Trim(l, t, sz, cap) ==
    IF cap = UnboundedCapacity \/ sz <= cap
    THEN [list |-> l, table |-> t, size |-> sz, hung |-> FALSE]
    ELSE IF l = <<>>
    THEN [list |-> l, table |-> t, size |-> sz, hung |-> TRUE]
    ELSE LET d == CappedDelete(l, t, sz, l[Len(l)].key) IN
         Trim(d.list, d.table, d.size, cap)

\* a faulty CappedLRUList.Add that never trims
CappedAddNoTrim(l, t, sz, cap, key, s) ==
    [list |-> <<[key |-> key, storable |-> s]>> \o l, table |-> t \cup {key},
     size |-> sz + (StorableSize(s) + KeyLen(key)), hung |-> FALSE]

\* CappedLRUList.Add: LRUList.Add, size += entry size, trim
CappedAdd(l, t, sz, cap, key, s) ==
    LET a == LRUAdd(l, t, key, s) IN
    Trim(a.list, a.table, sz + (StorableSize(s) + KeyLen(key)), cap)

\* the calls of the Storage interface leave a record of themselves
\* (had: the key was present before the call; evicted: entries trim() removed)
Call(op, key, arg, err, had, evicted) ==
    [op |-> op, key |-> key, arg |-> arg, err |-> err, had |-> had, evicted |-> evicted]

\* keys by last use: key moves to the front, and only live keys are kept
Touch(key, live) ==
    LET r == <<key>> \o SelectSeq(recency, LAMBDA k : k # key) IN
    SelectSeq(r, LAMBDA k : k \in live)

InitStorage ==
    /\ backend \in {"memory", "disk"}
    /\ capacity \in {UnboundedCapacity, MaxCapacity}
    /\ list = <<>>
    /\ table = {}
    /\ size = 0
    /\ files = [k \in StorageKeys |-> <<>>]
    /\ hung = FALSE
    /\ last = Call("init", "", <<>>, FALSE, FALSE, 0)
    /\ recency = <<>>
    /\ goroutines = <<>>
    /\ clock = 0 /\ bodyFiles = <<>> /\ headerFiles = <<>> /\ stale = <<>>
    /\ pending = <<>> /\ upstream = <<>> /\ hShared = FALSE /\ marked = <<>>

\* MemoryStorage.Store / DiskStorage.Store: Delete(key), StorableCopy into a buffer
\* or into the created file, items.Add
Store(key, s) ==
    LET d == CappedDelete(list, table, size, key)
        c == StorableCopy(s)
        stored == IF backend = "memory"
                  THEN NewByteStorable(c.data, s.statusCode, s.header)
                  ELSE NewFileStorable(key, c.n, s.header, s.statusCode)
        a == CappedAdd(d.list, d.table, d.size, capacity, key, stored)
    IN
    /\ ~hung
    /\ files' = IF backend = "disk" THEN [files EXCEPT ![key] = c.data] ELSE files
    /\ IF c.err
       THEN /\ list' = d.list /\ table' = d.table /\ size' = d.size
            /\ UNCHANGED hung
            /\ recency' = SelectSeq(recency, LAMBDA k : k \in d.table)
       ELSE /\ list' = a.list /\ table' = a.table /\ size' = a.size
            /\ hung' = a.hung
            /\ recency' = Touch(key, a.table)
    /\ last' = Call("Store", key, s, c.err, key \in table,
                    IF c.err THEN 0 ELSE Len(d.list) + 1 - Len(a.list))
    /\ UNCHANGED <<backend, capacity, goroutines, cacheVars>>

\* MemoryStorage.Get / DiskStorage.Get
Get(key) ==
    LET g == LRUGet(list, table, key) IN
    /\ ~hung
    /\ list' = g.list
    /\ last' = Call("Get", key, <<>>, ~g.found, g.found, 0)
    /\ recency' = IF g.found THEN Touch(key, table) ELSE recency
    /\ UNCHANGED <<backend, capacity, table, size, files, hung, goroutines, cacheVars>>

\* MemoryStorage.GetMeta / DiskStorage.GetMeta
GetMeta(key) ==
    LET g == LRUGet(list, table, key) IN
    /\ ~hung
    /\ list' = g.list
    /\ last' = Call("GetMeta", key, <<>>, ~g.found, g.found, 0)
    /\ recency' = IF g.found THEN Touch(key, table) ELSE recency
    /\ UNCHANGED <<backend, capacity, table, size, files, hung, goroutines, cacheVars>>

\* a faulty Freshen that stores a new, bodiless storable with the new metadata
FreshenDropsBody(key, statusCode, header) ==
    LET g == LRUGet(list, table, key) IN
    /\ ~hung
    /\ list' = IF g.found
               THEN [g.list EXCEPT ![1].storable = NewByteStorable(<<>>, statusCode, header)]
               ELSE g.list
    /\ last' = Call("Freshen", key, [statusCode |-> statusCode, header |-> header],
                    ~g.found, g.found, 0)
    /\ recency' = IF g.found THEN Touch(key, table) ELSE recency
    /\ UNCHANGED <<backend, capacity, table, size, files, hung, goroutines, cacheVars>>

\* MemoryStorage.Freshen / DiskStorage.Freshen: header and status code of the
\* stored entry are assigned in place
Freshen(key, statusCode, header) ==
    LET g == LRUGet(list, table, key) IN
    /\ ~hung
    /\ list' = IF g.found
               THEN [g.list EXCEPT ![1].storable.header = header,
                                   ![1].storable.statusCode = statusCode]
               ELSE g.list
    /\ last' = Call("Freshen", key, [statusCode |-> statusCode, header |-> header],
                    ~g.found, g.found, 0)
    /\ recency' = IF g.found THEN Touch(key, table) ELSE recency
    /\ UNCHANGED <<backend, capacity, table, size, files, hung, goroutines, cacheVars>>

\* MemoryStorage.Delete / DiskStorage.Delete
Delete(key) ==
    LET g == LRUGet(list, table, key)
        d == CappedDelete(g.list, table, size, key)
    IN
    /\ ~hung
    /\ list' = d.list /\ table' = d.table /\ size' = d.size
    /\ last' = Call("Delete", key, <<>>, ~g.found, g.found, 0)
    /\ recency' = SelectSeq(recency, LAMBDA k : k \in d.table)
    /\ UNCHANGED <<backend, capacity, files, hung, goroutines, cacheVars>>

\* what Get(key) hands back in the current state, its body read to the end
GetResult(key) ==
    LET g == LRUGet(list, table, key) IN
    IF g.found
    THEN [found |-> TRUE, statusCode |-> g.storable.statusCode,
          header |-> g.storable.header, body |-> ReadAll(g.storable, files)]
    ELSE [found |-> FALSE, statusCode |-> 0, header |-> <<>>, body |-> <<>>]

\* MemoryStorage.Keys / DiskStorage.Keys
Keys == LRUKeys(list)

\* MemoryStorage.Len / DiskStorage.Len
StorageLen == Len(list)

StoreAny == \E key \in StorageKeys, s \in Storables : Store(key, s)

GetAny == \E key \in StorageKeys : Get(key)

GetMetaAny == \E key \in StorageKeys : GetMeta(key)

FreshenAny == \E key \in StorageKeys, m \in StorageMetas : Freshen(key, m.statusCode, m.header)

DeleteAny == \E key \in StorageKeys : Delete(key)

NextStorage ==
    \/ StoreAny
    \/ GetAny
    \/ GetMetaAny
    \/ FreshenAny
    \/ DeleteAny

vars == <<storageVars, cacheVars, last>>

SpecStorage == InitStorage /\ [][NextStorage]_vars

(***************************************************************************)
(* Properties of package storage.                                          *)
(***************************************************************************)
\* the entry stored under key in list l, <<>> when there is none
EntryOf(l, key) ==
    LET i == IndexOf(l, key) IN IF i = 0 THEN <<>> ELSE l[i]

\* number of list elements that carry key
Occurrences(l, key) == Cardinality({i \in 1..Len(l) : l[i].key = key})

\* sum of body size + key length over the entries of l
RECURSIVE LiveSize(_)
LiveSize(l) == IF l = <<>> THEN 0 ELSE EntrySize(Head(l)) + LiveSize(Tail(l))

\* the bytes of v a store is to keep: the first Content-Length bytes when v's
\* headers carry a Content-Length, else the whole body
DeclaredBody(v) ==
    IF v.header.ContentLength = <<>> THEN v.body
    ELSE SubSeq(v.body, 1, Min(Len(v.body), Max(0, v.header.ContentLength[1])))

\* the latest call was a Store that returned no error
Stored == last.op = "Store" /\ ~last.err

\* C1 as the spec states it: a get(k) right after a successful store(k, v) finds
\* the key and returns v's status code, v's headers and v's body bytes.
C1_Original ==
    Stored =>
        LET r == GetResult(last.key) IN
        /\ r.found
        /\ r.statusCode = last.arg.statusCode
        /\ r.header = last.arg.header
        /\ r.body = last.arg.body

\* C1: a get(k) right after a successful store(k, v) whose entry fits the
\* capacity (capacity 0, or kept bytes + key length <= capacity) returns v's
\* status code and headers and the bytes the store kept of v's body (the first
\* Content-Length bytes when v declares one, else all of them), and exactly
\* one entry exists for k, also when k held another resource before.
C1_Theorem ==
    (Stored /\ (capacity = UnboundedCapacity
                \/ Len(DeclaredBody(last.arg)) + KeyLen(last.key) <= capacity)) =>
        LET r == GetResult(last.key) IN
        /\ r.found
        /\ r.statusCode = last.arg.statusCode
        /\ r.header = last.arg.header
        /\ r.body = DeclaredBody(last.arg)
        /\ Occurrences(list, last.key) = 1

\* an overwrite of a held key by a resource with a different status and body
C1_Witness ==
    /\ Stored /\ last.had
    /\ capacity = MaxCapacity
    /\ Len(list) >= 2
    /\ last.arg.statusCode = 404
    /\ GetResult(last.key).body = <<1>>

\* C2: with a capacity C > 0 the body sizes plus key lengths of the live entries
\* sum to at most C after every call, also after a store of an entry that alone
\* is larger than C; the tracked size is that sum.
C2_Theorem ==
    capacity > 0 => (LiveSize(list) <= capacity /\ size = LiveSize(list))

\* a store of an entry larger than the capacity, which evicted the older
\* entries and itself
C2_Witness ==
    /\ Stored
    /\ capacity > 0
    /\ Len(DeclaredBody(last.arg)) + KeyLen(last.key) > capacity
    /\ last.evicted >= 2
    /\ list = <<>>

\* l is an initial segment of m
IsPrefix(l, m) == Len(l) <= Len(m) /\ l = SubSeq(m, 1, Len(l))

\* a successful store keeps an initial segment of the keys in order of last
\* use with the stored key first: what it evicts is the least recently used
EvictsOldestFirst ==
    (last'.op = "Store" /\ ~last'.err) =>
        IsPrefix(LRUKeys(list'),
                 <<last'.key>> \o SelectSeq(recency, LAMBDA k : k # last'.key))

\* keys() lists exactly the live keys, each once, most recently used first
KeysByRecency ==
    /\ Keys = recency
    /\ Range(Keys) = table
    /\ \A k \in StorageKeys : Occurrences(list, k) = (IF k \in table THEN 1 ELSE 0)

\* C3: eviction removes the least recently used entries first, a key becomes the
\* most recently used on every store and every successful read of it, and
\* keys() lists exactly the live keys from most to least recently used.
C3_Theorem == [](KeysByRecency) /\ [][EvictsOldestFirst]_vars

\* a store into a capped storage that evicted an entry and kept another, older
\* by insertion but read since
C3_Witness ==
    /\ Stored
    /\ capacity > 0
    /\ last.evicted = 1
    /\ Len(list) = 2

\* a step of Freshen(key, ...) on a held key leaves the key set, the order
\* of the other keys, every entry's size and body and the other entries'
\* metadata as they were, and gives the entry the new status and headers
FreshenKeepsBody ==
    (last'.op = "Freshen" /\ ~last'.err) =>
        LET k == last'.key IN
        /\ table' = table
        /\ size' = size
        /\ files' = files
        /\ \A j \in table :
              LET old == EntryOf(list, j)
                  new == EntryOf(list', j)
              IN
              /\ new # <<>>
              /\ EntrySize(new) = EntrySize(old)
              /\ ReadAll(new.storable, files') = ReadAll(old.storable, files)
              /\ j # k => new = old
        /\ EntryOf(list', k).storable.statusCode = last'.arg.statusCode
        /\ EntryOf(list', k).storable.header = last'.arg.header

\* C4: freshen(k, m) replaces the status and headers of k's entry and nothing
\* else: the body bytes, the set of keys and the entry sizes stay as they were.
C4_Theorem == [][FreshenKeepsBody]_vars

\* a freshen of an entry with a body that changed its status, next to another entry
C4_Witness ==
    /\ last.op = "Freshen" /\ ~last.err
    /\ Len(list) >= 2
    /\ GetResult(last.key).body # <<>>
    /\ GetResult(last.key).statusCode = 404
    /\ \E i \in 1..Len(list) : list[i].storable.statusCode = 200

(***************************************************************************)
(* Part II.  The cache coordinator                                         *)
(***************************************************************************)
\* the last instant of the model's clock
MaxClock == 2
\* the number of versions the origin's content goes through
MaxVersion == 2
\* the most store goroutines that wait to run at a time
MaxPending == 1

\* header values that are instants: absent, or present and not a date
NoTime == -1

BadTime == -2

Instants == 0..MaxClock

\* the latest instant of the runs that follow the age of a resource
MaxLate == 4

\* no request is handled that would end after this instant
LastInstant == Max(MaxClock, MaxLate)

(***************************************************************************)
(* Cache-Control.  A header value is a sequence of atoms: the separators   *)
(* "," " " "=" and the double quote, and words (maximal runs of other      *)
(* characters).  ParseCacheControl looks at no character inside a word.    *)
(***************************************************************************)
Comma == ","

Space == " "

Equals == "="

Quote == "\""

\* CacheControl.Has
Has(cc, key) == key \in DOMAIN cc

\* CacheControl.Add: the key gets an entry, a non-empty value is appended to it
Add(cc, key, val) ==
    LET old == IF Has(cc, key) THEN cc[key] ELSE <<>>
        new == IF val # <<>> THEN Append(old, val) ELSE old
    IN [k \in DOMAIN cc \cup {key} |-> IF k = key THEN new ELSE cc[k]]

\* strings.Trim(s, `"`)
RECURSIVE TrimQuotes(_)
TrimQuotes(s) ==
    IF s = <<>> THEN s
    ELSE IF Head(s) = Quote THEN TrimQuotes(Tail(s))
    ELSE IF s[Len(s)] = Quote THEN TrimQuotes(SubSeq(s, 1, Len(s) - 1))
    ELSE s

\* strings.Index(input, "="), counted from 1; 0 when there is none
RECURSIVE IndexOfEquals(_)
IndexOfEquals(s) ==
    IF s = <<>> THEN 0
    ELSE IF Head(s) = Equals THEN 1
    ELSE LET r == IndexOfEquals(Tail(s)) IN IF r = 0 THEN 0 ELSE r + 1

\* addToken: key=value at the first "=", the value trimmed of quotes
addToken(cc, input) ==
    LET idx == IndexOfEquals(input) IN
    IF idx # 0
    THEN Add(cc, SubSeq(input, 1, idx - 1), TrimQuotes(SubSeq(input, idx + 1, Len(input))))
    ELSE Add(cc, input, <<>>)

\* the loop of ParseCacheControl from position i on, then the leftovers
RECURSIVE ParseFrom(_, _, _, _, _, _)
ParseFrom(input, i, inToken, inQuote, offset, cc) ==
    IF i > Len(input)
    THEN IF offset <= Len(input)
         THEN addToken(cc, SubSeq(input, offset, Len(input)))
         ELSE cc
    ELSE LET c == input[i] IN
         IF inToken /\ c = Comma /\ ~inQuote
         THEN ParseFrom(input, i + 1, FALSE, inQuote, offset,
                        addToken(cc, SubSeq(input, offset, i - 1)))
         ELSE IF inToken /\ c = Quote /\ i > 1 /\ input[Max(1, i - 1)] = Equals
         THEN ParseFrom(input, i + 1, inToken, TRUE, offset, cc)
         ELSE IF ~inToken /\ c # Comma /\ c # Space
         THEN ParseFrom(input, i + 1, TRUE, inQuote, i, cc)
         ELSE IF inToken /\ inQuote /\ c = Quote
         THEN ParseFrom(input, i + 1, FALSE, inQuote, offset,
                        addToken(cc, SubSeq(input, offset, i)))
         ELSE ParseFrom(input, i + 1, inToken, inQuote, offset, cc)

\* ParseCacheControl: a map from directive to its values; it reports no error
ParseCacheControl(input) ==
    [cc |-> ParseFrom(input, 1, FALSE, FALSE, 1, <<>>), err |-> FALSE]

\* CacheControl.Get: the first value, and whether the directive is there
CCGet(cc, key) ==
    [v |-> IF Has(cc, key) /\ cc[key] # <<>> THEN cc[key][1] ELSE <<>>,
     ok |-> Has(cc, key)]

\* the words that time.ParseDuration(d + "s") reads as whole seconds
Seconds(word) ==
    CASE word = "0" -> 0 [] word = "1" -> 1 [] word = "2" -> 2 [] word = "3" -> 3
      [] word = "4" -> 4 [] word = "5" -> 5 [] OTHER -> -1

\* CacheControl.Duration: time.ParseDuration of the first value
Duration(cc, key) ==
    LET d == CCGet(cc, key).v
        n == IF Len(d) = 1 THEN Seconds(d[1]) ELSE -1
    IN IF n >= 0 THEN [d |-> n, err |-> FALSE] ELSE [d |-> 0, err |-> TRUE]

\* directive names and header values written as the atoms they consist of
Word(w) == <<w>>

Directive(name, value) == <<name, Equals, value>>

(***************************************************************************)
(* Headers.  A header is a record of the fields the cache reads; an        *)
(* absent field holds NoTime, the empty text or the empty sequence.        *)
(***************************************************************************)
\* the header fields, in the order http.Header.Write emits them
FieldNames == {"Age", "CacheControl", "ContentLength", "ContentMD5", "Date", "Etag",
               "Expires", "LastModified", "ProxyDate", "Vary", "XLlamas"}

\* what h.Get(name) yields for a field that is not there
Absent(name) ==
    CASE name = "CacheControl" -> <<>>
      [] name = "Etag" -> <<>>
      [] name = "Vary" -> ""
      [] name = "XLlamas" -> ""
      [] OTHER -> NoTime

\* http.Header{}
EmptyHeader == [n \in FieldNames |-> Absent(n)]

\* writeHeaders: one line per field that is present
writeHeaders(h) ==
    LET present == {n \in FieldNames : h[n] # Absent(n)} IN
    [n \in present |-> h[n]]

\* readHeaders: the lines read back into a header
readHeaders(lines) ==
    [n \in FieldNames |-> IF n \in DOMAIN lines THEN lines[n] ELSE Absent(n)]

\* a map or a directory with key k set to v, and with key k removed
Put(f, k, v) == [x \in (DOMAIN f) \cup {k} |-> IF x = k THEN v ELSE f[x]]

Drop(f, k) == [x \in (DOMAIN f) \ {k} |-> f[x]]

\* timeHeader(name, h): the instant in a header, an error when absent or unparseable
timeHeader(name, h) == [t |-> h[name], err |-> h[name] < 0]

\* intHeader(name, h): the integer in a header, an error when absent
intHeader(name, h) == [n |-> h[name], err |-> h[name] < 0]

(***************************************************************************)
(* Resource                                                                *)
(***************************************************************************)
\* NewResource(status, body, header): not stale, the Cache-Control header parsed
NewResource(status, body, h) ==
    [status |-> status, body |-> body, header |-> h, stale |-> FALSE,
     CacheControl |-> ParseCacheControl(h.CacheControl)]

\* Resource.MarkStale
MarkStale(res) == [res EXCEPT !.stale = TRUE]

\* Resource.IsStale
IsStale(res) == res.stale

\* Resource.cacheControl: the parsed Cache-Control header, and the parse error
cacheControl(res) == res.CacheControl

\* DateAfter with the comparison the other way round
DateBefore(res, d) ==
    IF res.header.Date # NoTime
    THEN IF res.header.Date = BadTime THEN FALSE ELSE res.header.Date < d
    ELSE FALSE

\* Resource.DateAfter: the Date header parses and is after d
DateAfter(res, d) ==
    IF res.header.Date # NoTime
    THEN IF res.header.Date = BadTime THEN FALSE ELSE res.header.Date > d
    ELSE FALSE

\* Resource.MustValidate that requires validation of no resource
MustValidateNever(res, shared) == FALSE

\* Resource.MustValidate
MustValidate(res, shared) ==
    LET cc == res.CacheControl.cc IN
    \/ Has(cc, Word("s-maxage")) /\ shared
    \/ Has(cc, Word("must-revalidate"))
    \/ Has(cc, Word("proxy-revalidate")) /\ shared

\* Resource.Age: Clock() - Proxy-Date (else Date) + Age header
Age(res, now) ==
    LET a == intHeader("Age", res.header)
        age == IF a.err THEN 0 ELSE a.n
        proxyDate == timeHeader("ProxyDate", res.header)
        date == timeHeader("Date", res.header)
    IN IF ~proxyDate.err THEN [d |-> now - proxyDate.t + age, err |-> FALSE]
       ELSE IF ~date.err THEN [d |-> now - date.t + age, err |-> FALSE]
       ELSE [d |-> 0, err |-> TRUE]

\* Resource.MaxAge
MaxAge(res, shared, now) ==
    LET cc == res.CacheControl.cc
        s == Duration(cc, Word("s-maxage"))
        m == Duration(cc, Word("max-age"))
        viaS == Has(cc, Word("s-maxage")) /\ shared
        viaM == Has(cc, Word("max-age"))
    IN IF viaS /\ s.err THEN [d |-> 0, err |-> TRUE]
       ELSE IF viaS /\ s.d > 0 THEN [d |-> s.d, err |-> FALSE]
       ELSE IF viaM /\ m.err THEN [d |-> 0, err |-> TRUE]
       ELSE IF viaM /\ m.d > 0 THEN [d |-> m.d, err |-> FALSE]
       ELSE IF res.header.Expires # NoTime
       THEN IF res.header.Expires = BadTime THEN [d |-> 0, err |-> TRUE]
            ELSE [d |-> res.header.Expires - now, err |-> FALSE]
       ELSE [d |-> 0, err |-> FALSE]

\* Resource.HasValidators
HasValidators(res) == res.header.LastModified # NoTime \/ res.header.Etag # <<>>

\* Resource.HasExplicitExpiration
HasExplicitExpiration(res) ==
    LET cc == res.CacheControl.cc IN
    \/ Duration(cc, Word("max-age")).d > 0
    \/ Duration(cc, Word("s-maxage")).d > 0
    \/ res.header.Expires >= 0

\* Resource.HeuristicFreshness: a tenth of the time since Last-Modified; an
\* unparseable Last-Modified counts as the zero time, ages ago
HeuristicFreshness(res, now) ==
    IF ~HasExplicitExpiration(res) /\ res.header.LastModified # NoTime
    THEN IF res.header.LastModified = BadTime THEN 1000000
         ELSE (now - res.header.LastModified) \div 10
    ELSE 0

(***************************************************************************)
(* Cache: a value c holds the directories body/ and header/ and the map    *)
(* of stale markers.                                                       *)
(***************************************************************************)
\* hashKey: sha256 of the key; distinct keys of the model get distinct names
hashKey(key) == key

\* validateHeaders: each validator the new headers carry equals the stored one
validateHeaders(h1, h2) ==
    \A n \in {"Etag", "LastModified"} : h2[n] # Absent(n) => h1[n] = h2[n]

\* Cache.Header
CacheHeader(c, key) ==
    IF hashKey(key) \in DOMAIN c.header
    THEN [h |-> readHeaders(c.header[hashKey(key)]), found |-> TRUE]
    ELSE [h |-> EmptyHeader, found |-> FALSE]

\* Cache.storeHeaders
storeHeaders(c, h, key) == [c EXCEPT !.header = Put(c.header, hashKey(key), writeHeaders(h))]

\* Cache.storeBody that leaves the body of a key that has one
storeBodyOnce(c, body, key) ==
    IF hashKey(key) \in DOMAIN c.body THEN c
    ELSE [c EXCEPT !.body = Put(c.body, hashKey(key), body)]

\* Cache.storeBody
storeBody(c, body, key) == [c EXCEPT !.body = Put(c.body, hashKey(key), body)]

\* Cache.Store that leaves the stale markers where they are
RECURSIVE CacheStoreKeepsMarker(_, _, _)
CacheStoreKeepsMarker(c, res, keys) ==
    IF keys = <<>> THEN c
    ELSE CacheStoreKeepsMarker(storeHeaders(storeBody(c, res.body, Head(keys)),
                                            res.header, Head(keys)),
                               res, Tail(keys))

\* Cache.Store: for each key, drop the stale marker, write the body, write the headers
RECURSIVE CacheStore(_, _, _)
CacheStore(c, res, keys) ==
    IF keys = <<>> THEN c
    ELSE LET key == Head(keys)
             c1 == [c EXCEPT !.stale = Drop(c.stale, key)]
             c2 == storeBody(c1, res.body, key)
             c3 == storeHeaders(c2, res.header, key)
         IN CacheStore(c3, res, Tail(keys))

\* what Cache.Retrieve returns with ErrNotFoundInCache
NoResource ==
    [status |-> 0, body |-> [ver |-> 0, lang |-> ""], header |-> EmptyHeader,
     stale |-> FALSE, CacheControl |-> [cc |-> <<>>, err |-> FALSE]]

\* the end of Cache.Retrieve: the resource is marked stale when a marker exists
\* that its Date is not after
Retrieved(c, key, res) ==
    [found |-> TRUE,
     res |-> IF key \in DOMAIN c.stale /\ ~DateAfter(res, c.stale[key])
             THEN MarkStale(res) ELSE res]

\* Cache.Retrieve: ErrNotFoundInCache when the body or the header file is
\* missing, else the resource of status 200 made of the two
CacheRetrieve(c, key) ==
    IF hashKey(key) \notin DOMAIN c.body \/ ~CacheHeader(c, key).found
    THEN [found |-> FALSE, res |-> NoResource]
    ELSE Retrieved(c, key, NewResource(200, c.body[hashKey(key)], CacheHeader(c, key).h))

\* Cache.Invalidate: the marker of each key becomes Clock()
RECURSIVE Invalidate(_, _, _)
Invalidate(c, keys, now) ==
    IF keys = <<>> THEN c
    ELSE Invalidate([c EXCEPT !.stale = Put(c.stale, Head(keys), now)], Tail(keys), now)

\* Cache.Freshen that replaces the stored headers whatever the validators
RECURSIVE CacheFreshenAlways(_, _, _, _)
CacheFreshenAlways(c, res, keys, now) ==
    IF keys = <<>> THEN c
    ELSE CacheFreshenAlways(IF CacheHeader(c, Head(keys)).found
                            THEN storeHeaders(c, res.header, Head(keys)) ELSE c,
                            res, Tail(keys), now)

\* Cache.Freshen: a key whose headers are stored gets the headers of res when
\* the validators agree, and a stale marker when they do not
RECURSIVE CacheFreshen(_, _, _, _)
CacheFreshen(c, res, keys, now) ==
    IF keys = <<>> THEN c
    ELSE LET key == Head(keys)
             h == CacheHeader(c, key)
             c1 == IF ~h.found THEN c
                   ELSE IF validateHeaders(h.h, res.header)
                   THEN storeHeaders(c, res.header, key)
                   ELSE Invalidate(c, <<key>>, now)
         IN CacheFreshen(c1, res, Tail(keys), now)

\* the Cache as the variables hold it
TheCache == [body |-> bodyFiles, header |-> headerFiles, stale |-> stale]

\* NewCache: empty directories, no stale marker
NewCache == [body |-> <<>>, header |-> <<>>, stale |-> <<>>]

(***************************************************************************)
(* Keys.  A key is the method and the URL, plus the header a secondary     *)
(* (Vary) key was derived from and the request's value of it.              *)
(***************************************************************************)
Langs == {"en", "de"}

Url == "/"

\* the primary key of a method and a URL
NewKey(method, url) == [method |-> method, url |-> url, vary |-> <<>>]

\* NewRequestKey: the primary key of a request
NewRequestKey(r) == NewKey(r.method, r.url)

\* Key.ForMethod: the same key under another method
ForMethod(k, method) == [k EXCEPT !.method = method]

\* Key.Vary: the secondary key for the request's value of the header named in
\* Vary; a request has no header of the name "*"
KeyVary(k, varyHeader, r) ==
    [k EXCEPT !.vary = <<varyHeader, IF varyHeader = "Accept-Language" THEN r.lang ELSE "">>]

CacheKeys ==
    {NewKey(m, Url) : m \in {"GET", "HEAD"}} \cup
    {KeyVary(NewKey(m, Url), "Accept-Language", [lang |-> l]) :
        m \in {"GET", "HEAD"}, l \in Langs}

(***************************************************************************)
(* Part II: the Cache called directly                                      *)
(***************************************************************************)
\* the keys the calls use
ApiKeys == {NewKey("GET", Url), KeyVary(NewKey("GET", Url), "Accept-Language", [lang |-> "en"])}

ApiKeyLists ==
    {<<k>> : k \in ApiKeys} \cup
    {<<NewKey("GET", Url), KeyVary(NewKey("GET", Url), "Accept-Language", [lang |-> "en"])>>}

\* a response body: the origin's version of the page in a language
Body(ver, lang) == [ver |-> ver, lang |-> lang]

\* the resources the calls pass: dated now, undated or with a Date that does not
\* parse, and with the entity tag of one of the versions
ApiResources(now, versions) ==
    {NewResource(200, Body(1, "en"), [EmptyHeader EXCEPT !.Date = d, !.Etag = <<v, "en">>]) :
        d \in {now, NoTime, BadTime}, v \in versions}

SetCache(c) == bodyFiles' = c.body /\ headerFiles' = c.header /\ stale' = c.stale

InitCache ==
    /\ backend = "memory" /\ capacity = UnboundedCapacity /\ list = <<>> /\ table = {}
    /\ size = 0 /\ files = [k \in StorageKeys |-> <<>>] /\ hung = FALSE /\ recency = <<>>
    /\ goroutines = <<>>
    /\ last = [op |-> "init"]
    /\ clock = 0
    /\ bodyFiles = NewCache.body /\ headerFiles = NewCache.header /\ stale = NewCache.stale
    /\ pending = <<>> /\ upstream = <<>> /\ hShared = FALSE /\ marked = <<>>

\* Cache.Store(res, keys...)
DoStore(res, keys) ==
    /\ SetCache(CacheStore(TheCache, res, keys))
    /\ marked' = [k \in (DOMAIN marked) \ Range(keys) |-> marked[k]]
    /\ last' = [op |-> "Store", keys |-> keys, res |-> res,
                dropped |-> Range(keys) \cap DOMAIN stale]
    /\ UNCHANGED <<storageVars, clock, pending, upstream, hShared>>

\* Cache.Retrieve(key)
DoRetrieve(key) ==
    LET r == CacheRetrieve(TheCache, key) IN
    /\ last' = [op |-> "Retrieve", key |-> key, found |-> r.found,
                stale |-> r.found /\ IsStale(r.res)]
    /\ UNCHANGED <<storageVars, cacheVars>>

\* Cache.Invalidate(keys...)
DoInvalidate(keys) ==
    /\ SetCache(Invalidate(TheCache, keys, clock))
    /\ marked' = [k \in (DOMAIN marked) \cup Range(keys) |->
                    IF k \in Range(keys) THEN clock ELSE marked[k]]
    /\ last' = [op |-> "Invalidate"]
    /\ UNCHANGED <<storageVars, clock, pending, upstream, hShared>>

\* Cache.Freshen(res, keys...): the keys it invalidates are those whose stored
\* validators differ from the ones of res
DoFreshen(res, keys) ==
    LET failed == {k \in Range(keys) : /\ CacheHeader(TheCache, k).found
                                       /\ ~validateHeaders(CacheHeader(TheCache, k).h, res.header)}
    IN
    /\ SetCache(CacheFreshen(TheCache, res, keys, clock))
    /\ marked' = [k \in (DOMAIN marked) \cup failed |->
                    IF k \in failed THEN clock ELSE marked[k]]
    /\ last' = [op |-> "Freshen", keys |-> keys, res |-> res, failed |-> failed]
    /\ UNCHANGED <<storageVars, clock, pending, upstream, hShared>>

\* Clock() advances
Tick ==
    /\ clock < MaxClock
    /\ clock' = clock + 1
    /\ UNCHANGED <<storageVars, last, bodyFiles, headerFiles, stale, pending, upstream, hShared, marked>>

DoStoreAny == \E res \in ApiResources(clock, {1}), keys \in ApiKeyLists : DoStore(res, keys)

DoRetrieveAny == \E key \in ApiKeys : DoRetrieve(key)

DoInvalidateAny == \E keys \in ApiKeyLists : DoInvalidate(keys)

DoFreshenAny == \E res \in ApiResources(clock, {1, 2}), keys \in ApiKeyLists : DoFreshen(res, keys)

NextCache == DoStoreAny \/ DoRetrieveAny \/ DoInvalidateAny \/ DoFreshenAny \/ Tick

SpecCache == InitCache /\ [][NextCache]_vars

\* the Date of the resource stored under k, when it parses
DateOf(k) == CacheHeader(TheCache, k).h.Date

\* C5: after invalidate(k) at instant T with no later store of k, retrieve(k)
\* returns stale=true when the resource's Date is before T and stale=false when
\* it is after T; with no invalidation of k, retrieve(k) never returns stale=true
C5_Theorem ==
    \A k \in CacheKeys :
        LET r == CacheRetrieve(TheCache, k) IN
        r.found =>
            /\ (k \in DOMAIN marked /\ DateOf(k) >= 0 /\ DateOf(k) < marked[k]) => IsStale(r.res)
            /\ (k \in DOMAIN marked /\ DateOf(k) >= 0 /\ DateOf(k) > marked[k]) => ~IsStale(r.res)
            /\ k \notin DOMAIN marked => ~IsStale(r.res)

\* a retrieve has just returned a stale resource dated before the invalidation of
\* its key, while another invalidated key holds a resource dated after its own
C5_Witness ==
    /\ last.op = "Retrieve" /\ last.found /\ last.stale
    /\ last.key \in DOMAIN marked /\ DateOf(last.key) >= 0 /\ DateOf(last.key) < marked[last.key]
    /\ \E k \in DOMAIN marked :
          /\ CacheRetrieve(TheCache, k).found
          /\ DateOf(k) > marked[k]
          /\ ~IsStale(CacheRetrieve(TheCache, k).res)

\* C33: Store drops the stale marker of each key: after an invalidation of k
\* and a store of r under k, Retrieve(k) returns r, not stale, whatever the
\* Date of r; and k has a stale marker only from an invalidation, or a freshen
\* that failed, until the next store of k
C33_Theorem ==
    /\ DOMAIN stale = DOMAIN marked
    /\ last.op = "Store" =>
          \A k \in Range(last.keys) :
              LET r == CacheRetrieve(TheCache, k) IN
              /\ r.found /\ ~IsStale(r.res)
              /\ r.res.header = last.res.header /\ r.res.body = last.res.body

\* a resource with no Date has just been stored under a key that had a stale
\* marker, while another key still has its marker
C33_Witness ==
    /\ last.op = "Store" /\ last.dropped # {}
    /\ last.res.header.Date = NoTime
    /\ stale # <<>>

\* what is stored under k: the header file, the body file and the stale marker
StoredUnder(c, k) ==
    [header |-> CacheHeader(c, k),
     body |-> IF hashKey(k) \in DOMAIN c.body THEN <<c.body[hashKey(k)]>> ELSE <<>>,
     marker |-> IF k \in DOMAIN c.stale THEN <<c.stale[k]>> ELSE <<>>]

\* the step is a call of Cache.Freshen(res, keys...) that did to k what it has
\* to: before is what was stored under k, after what is stored now
Freshened(res, keys, k, before, after, now) ==
    IF k \notin Range(keys) \/ ~before.header.found
    THEN after = before
    ELSE IF validateHeaders(before.header.h, res.header)
    THEN after = [before EXCEPT !.header.h = res.header]
    ELSE after = [before EXCEPT !.marker = <<now>>]

\* C34: Freshen on an existing key replaces the stored headers if and only if
\* the validators of the stored headers agree with those of res; when they do
\* not, stored headers and body stay and a stale marker is recorded for the
\* key; on an absent key it changes nothing
C34_Theorem ==
    [][\A res \in ApiResources(clock, {1, 2}), keys \in ApiKeyLists :
          DoFreshen(res, keys) =>
              \A k \in CacheKeys :
                  Freshened(res, keys, k, StoredUnder(TheCache, k),
                            StoredUnder(TheCache, k)', clock)]_vars

\* a freshen whose validators differ from the stored ones has just marked a key
\* stale, and the key still holds the resource it held
C34_Witness ==
    /\ last.op = "Freshen" /\ last.failed # {}
    /\ \A k \in last.failed :
          /\ stale[k] = clock
          /\ CacheRetrieve(TheCache, k).found
          /\ CacheRetrieve(TheCache, k).res.header.Etag # last.res.header.Etag

(***************************************************************************)
(* Part III: the Handler in front of an origin                             *)
(***************************************************************************)
\* Handler.Shared
Shared == hShared

\* the status codes a response may be stored with
storeable == {200, 302, 203, 300, 301, 410, 404}

cacheableByDefault == {200, 302, 304, 203, 300, 301, 410, 206}

\* a body of no bytes
EmptyBody == Body(0, "")

\* a request: method, URL, Accept-Language and Cache-Control; HTTP/1.1 with a
\* Host, no precondition header (If-Match, If-Unmodified-Since, If-Range) and
\* no Authorization
Req(method, lang, cc) ==
    [method |-> method, url |-> Url, lang |-> lang, cc |-> cc,
     proto |-> "HTTP/1.1", host |-> "example.org", cond |-> "", auth |-> ""]

\* the requests that clients send
Requests ==
    {Req("GET", l, cc) : l \in Langs, cc \in {<<>>, Word("no-store")}} \cup
    {Req("HEAD", "en", Word("no-store"))}

\* Cache-Control values of requests that forbid the cache
Forbidding ==
    {Word("no-store"), Word("no-cache"),
     Word("no-store") \o <<Comma, Space>> \o Directive("max-age", "1"),
     Word("only-if-cached") \o <<Comma>> \o Word("no-cache")}

\* Cache-Control values of requests that allow the cache
Allowing ==
    {<<>>, Word("only-if-cached"), Word("max-stale"), Directive("max-age", "1"),
     Directive("min-fresh", "1"), Word("No-Store")}

\* the requests whose handling the properties look at, in every state
AnyRequests ==
    {Req(m, l, cc) : m \in {"GET", "HEAD"}, l \in Langs, cc \in Forbidding \cup Allowing}

\* the origins: what they send as Cache-Control and as Vary, with which status,
\* entity tag and X-Llamas header.  Such an origin sends no Age and no Expires
\* header, its clock agrees with the cache's, and it answers at once
Origin(cc, vary, status, etag, x) ==
    [cc |-> cc, vary |-> vary, version |-> 1, status |-> status, etag |-> etag, x |-> x,
     age |-> NoTime, expires |-> NoTime, skew |-> 0, delay |-> 0, down |-> FALSE]

Origins ==
    {Origin(Directive("max-age", "1"), "", 200, TRUE, ""),
     Origin(Directive("max-age", "1"), "Accept-Language", 200, TRUE, ""),
     Origin(Directive("max-age", "2"), "", 200, TRUE, ""),
     Origin(Directive("max-age", "2") \o <<Comma, Space>> \o Word("must-revalidate"),
            "", 200, TRUE, "")}

\* the upstream handler, reached at instant now: the current version of the
\* page, in the request's language when it varies by it, with its status, with
\* an entity tag when it sends one and with its X-Llamas header; Date is the
\* origin's clock, Age and Expires are sent when the origin has them; 304 for a
\* matching If-None-Match; no body for HEAD.  The answer arrives o.delay later
Upstream(o, r, ifNoneMatch, now) ==
    LET lang == IF o.vary # "" THEN r.lang ELSE "en"
        etag == IF o.etag THEN <<o.version, lang>> ELSE <<>>
        h == [EmptyHeader EXCEPT !.Date = now + o.skew, !.CacheControl = o.cc,
                                 !.Etag = etag, !.Vary = o.vary, !.XLlamas = o.x,
                                 !.Age = o.age,
                                 !.Expires = IF o.expires = NoTime THEN NoTime
                                             ELSE now + o.skew + o.expires]
    IN IF o.down
       THEN [status |-> 502, header |-> EmptyHeader, body |-> EmptyBody]
       ELSE IF o.etag /\ ifNoneMatch = etag
       THEN [status |-> 304, header |-> h, body |-> EmptyBody]
       ELSE [status |-> o.status, header |-> h,
             body |-> IF r.method = "HEAD" THEN EmptyBody ELSE Body(o.version, lang)]

\* newCacheRequest without the test of the Host header
newCacheRequestAnyHost(r) ==
    LET p == ParseCacheControl(r.cc) IN
    [Request |-> r, Method |-> r.method, Key |-> NewRequestKey(r),
     CacheControl |-> p.cc, err |-> p.err]

\* newCacheRequest
newCacheRequest(r) ==
    LET p == ParseCacheControl(r.cc) IN
    [Request |-> r, Method |-> r.method, Key |-> NewRequestKey(r),
     CacheControl |-> p.cc, err |-> p.err \/ (r.proto = "HTTP/1.1" /\ r.host = "")]

\* cacheRequest.isCacheable
requestIsCacheable(cReq) ==
    LET maxAge == CCGet(cReq.CacheControl, Word("max-age")) IN
    IF ~(cReq.Method = "GET" \/ cReq.Method = "HEAD") THEN FALSE
    ELSE IF maxAge.ok /\ maxAge.v = Word("0") THEN FALSE
    ELSE IF Has(cReq.CacheControl, Word("no-store")) \/ Has(cReq.CacheControl, Word("no-cache"))
    THEN FALSE
    ELSE TRUE

\* the result of Handler.lookup: the resource, and the key it was retrieved under
Looked(retrieved, key) == [found |-> retrieved.found, res |-> retrieved.res, key |-> key]

\* Handler.lookup for a HEAD request whose own key is absent, serving the
\* resource of the GET key whenever there is one
lookupHeadAny(cReq, get) ==
    IF get.found
    THEN Looked(get, ForMethod(cReq.Key, "GET"))
    ELSE [found |-> FALSE, res |-> NoResource, key |-> cReq.Key]

\* Handler.lookup for a HEAD request whose own key is absent: the resource of
\* the GET key serves when it has an explicit expiration
lookupHead(cReq, get) ==
    IF get.found /\ HasExplicitExpiration(get.res) /\ requestIsCacheable(cReq)
    THEN Looked(get, ForMethod(cReq.Key, "GET"))
    ELSE [found |-> FALSE, res |-> NoResource, key |-> cReq.Key]

\* Handler.lookup, from the primary retrieve on, without the secondary lookup for Vary
lookupPrimaryOnly(c, cReq, first) ==
    IF ~first.found /\ cReq.Method = "HEAD"
    THEN lookupHead(cReq, CacheRetrieve(c, ForMethod(cReq.Key, "GET")))
    ELSE Looked(first, cReq.Key)

\* Handler.lookup, from the primary retrieve on
lookupFrom(c, cReq, first) ==
    IF ~first.found /\ cReq.Method = "HEAD"
    THEN lookupHead(cReq, CacheRetrieve(c, ForMethod(cReq.Key, "GET")))
    ELSE IF ~first.found THEN Looked(first, cReq.Key)
    ELSE IF first.res.header.Vary # ""
    THEN Looked(CacheRetrieve(c, KeyVary(cReq.Key, first.res.header.Vary, cReq.Request)),
                KeyVary(cReq.Key, first.res.header.Vary, cReq.Request))
    ELSE Looked(first, cReq.Key)

\* Handler.lookup
lookup(c, cReq) == lookupFrom(c, cReq, CacheRetrieve(c, cReq.Key))

\* Handler.needsValidation answering that every resource needs it
needsValidationAlways(res, cReq, now) == TRUE

\* Handler.needsValidation
needsValidation(res, cReq, now) ==
    LET maxAge0 == MaxAge(res, Shared, now)
        reqMaxAge == Duration(cReq.CacheControl, Word("max-age"))
        hasReqMaxAge == Has(cReq.CacheControl, Word("max-age"))
        maxAge == IF hasReqMaxAge /\ reqMaxAge.d < maxAge0.d THEN reqMaxAge.d ELSE maxAge0.d
        age == Age(res, now)
        reqMinFresh == Duration(cReq.CacheControl, Word("min-fresh"))
        maxStale == Duration(cReq.CacheControl, Word("max-stale")).d
    IN IF MustValidate(res, Shared) THEN TRUE
       ELSE IF IsStale(res) THEN TRUE
       ELSE IF maxAge0.err THEN TRUE
       ELSE IF hasReqMaxAge /\ reqMaxAge.err THEN TRUE
       ELSE IF age.err THEN TRUE
       ELSE IF HeuristicFreshness(res, now) > age.d THEN FALSE
       ELSE IF Has(cReq.CacheControl, Word("min-fresh")) /\ reqMinFresh.err THEN TRUE
       ELSE IF Has(cReq.CacheControl, Word("min-fresh")) /\ age.d + reqMinFresh.d > maxAge THEN TRUE
       ELSE IF age.d > maxAge THEN ~(maxStale > age.d - maxAge)
       ELSE FALSE

\* correctedAge(h, reqTime, respTime), called at instant now
correctedAge(h, reqTime, respTime, now) ==
    LET date == timeHeader("Date", h)
        apparentAge == Max(0, respTime - date.t)
        ageSeconds == intHeader("Age", h)
        age == IF ageSeconds.err THEN 0 ELSE ageSeconds.n
        corrected == Max(apparentAge, age + (respTime - reqTime))
    IN IF date.err THEN [d |-> 0, err |-> TRUE]
       ELSE [d |-> corrected + (now - respTime), err |-> FALSE]

\* validationHeaders: the headers a validation compares
validationHeaders == {"Etag", "ContentMD5", "LastModified", "ContentLength"}

\* headersEqual: a validator of the new headers differs from the stored one
headersEqual(h1, h2) ==
    \A n \in validationHeaders : h2[n] # Absent(n) => h1[n] = h2[n]

\* Validator.Validate: one conditional request to the origin; when no validator
\* changed, the resource takes the headers of the answer
Validate(r, res, o, now) ==
    LET resp == Upstream(o, r, res.header.Etag, now)
        age == correctedAge(resp.header, now, now + o.delay, now + o.delay)
        h == IF ~age.err THEN [resp.header EXCEPT !.Age = age.d] ELSE resp.header
    IN IF headersEqual(res.header, h)
       THEN [valid |-> TRUE,
             res |-> [res EXCEPT !.header = [h EXCEPT !.ProxyDate = now + o.delay]]]
       ELSE [valid |-> FALSE, res |-> res]

\* Handler.isCacheable
isCacheable(res, cReq, now) ==
    LET p == cacheControl(res) IN
    IF p.err THEN FALSE
    ELSE IF \/ Has(p.cc, Word("no-cache")) \/ Has(p.cc, Word("no-store"))
            \/ (Has(p.cc, Word("private")) /\ Shared)
    THEN FALSE
    ELSE IF res.status \notin storeable THEN FALSE
    ELSE IF cReq.Request.auth # "" /\ Shared THEN FALSE
    ELSE IF HasExplicitExpiration(res) THEN TRUE
    ELSE IF res.status \in cacheableByDefault
    THEN \/ Has(p.cc, Word("public"))
         \/ HasValidators(res)
         \/ HeuristicFreshness(res, now) > 0
    ELSE FALSE

\* what handling a request comes to: the X-Cache header, status and body the
\* client gets, the calls made to the origin, the cache afterwards, the store
\* goroutine started, the branch taken, the key and resource served, and the
\* Age and the Warning headers the client gets
Outcome(xcache, status, body, calls, c, job, path, key, res) ==
    [xcache |-> xcache, status |-> status, body |-> body, calls |-> calls,
     cache |-> c, job |-> job, path |-> path, key |-> key, res |-> res,
     age |-> res.header.Age, warning |-> {}]

\* Handler.storeResource: the goroutine that will store under the primary key
\* and, with a Vary header, under the secondary key
storeResource(res, cReq, why) ==
    LET vary == res.header.Vary IN
    [res |-> res, req |-> cReq.Request, why |-> why,
     keys |-> <<cReq.Key>> \o (IF vary # "" THEN <<KeyVary(cReq.Key, vary, cReq.Request)>>
                               ELSE <<>>)]

\* responseWriter.Resource: the response as a resource
Resource(resp) == NewResource(resp.status, resp.body, resp.header)

\* Handler.pipeUpstream that hands the response to storeResource
pipeUpstreamStores(c, cReq, res, now) ==
    Outcome("SKIP", res.status, res.body, 1, c, <<storeResource(res, cReq, "pipe")>>,
            "pipe", cReq.Key, res)

\* Handler.pipeUpstream, res being the origin's response: it goes to the client;
\* a HEAD freshens the GET key
pipeUpstream(c, cReq, res, now) ==
    Outcome("SKIP", res.status, res.body, 1,
            IF cReq.Method = "HEAD"
            THEN CacheFreshen(c, res, <<ForMethod(cReq.Key, "GET")>>, now) ELSE c,
            <<>>, "pipe", cReq.Key, res)

\* the resource passUpstream stores: Age set to the corrected age, Proxy-Date to now
Passed(res, age, now) ==
    [res EXCEPT !.header = [(IF ~age.err THEN [res.header EXCEPT !.Age = age.d]
                             ELSE res.header) EXCEPT !.ProxyDate = now]]

\* Handler.passUpstream that asks no isCacheable: every response is a MISS and stored
passUpstreamStoresAll(c, cReq, res, t, now, why, calls) ==
    Outcome("MISS", res.status, res.body, calls + 1, c,
            <<storeResource(Passed(res, correctedAge(res.header, t, now, now), now),
                            cReq, why)>>,
            why, cReq.Key, Passed(res, correctedAge(res.header, t, now, now), now))

\* Handler.passUpstream, res being the origin's response to the request sent at
\* instant t and now the instant it arrived: SKIP for a response that may not be
\* cached; else Age, X-Cache: MISS, Proxy-Date and storeResource
passUpstream(c, cReq, res, t, now, why, calls) ==
    IF ~isCacheable(res, cReq, now)
    THEN Outcome("SKIP", res.status, res.body, calls + 1, c, <<>>, why, cReq.Key, res)
    ELSE Outcome("MISS", res.status, res.body, calls + 1, c,
                 <<storeResource(Passed(res, correctedAge(res.header, t, now, now), now),
                                 cReq, why)>>,
                 why, cReq.Key, Passed(res, correctedAge(res.header, t, now, now), now))

\* a day, in seconds
Day == 86400

\* Resource.Warnings: 113 for a resource without explicit expiration that is
\* older than a day and heuristically fresh for more than a day
Warnings(res, now) ==
    IF Age(res, now).err THEN {}
    ELSE IF /\ ~HasExplicitExpiration(res)
            /\ Age(res, now).d > Day
            /\ HeuristicFreshness(res, now) > Day
    THEN {113}
    ELSE {}

\* Handler.serveResource followed by X-Cache: HIT
serveResource(c, res, cReq, now, calls, path, key) ==
    IF Age(res, now).err
    THEN Outcome("HIT", 500, EmptyBody, calls, c, <<>>, path, key, res)
    ELSE [Outcome("HIT", res.status,
                  IF cReq.Method = "HEAD" /\ res.status = 200 THEN EmptyBody ELSE res.body,
                  calls, c, <<>>, path, key, res)
          EXCEPT !.age = Age(res, now).d, !.warning = Warnings(res, now)]

\* Handler.ServeHTTP after the validator has answered, which is at instant now
ServeValidated(c, cReq, found, v, o, now) ==
    IF v.valid
    THEN serveResource(CacheFreshen(c, v.res, <<cReq.Key>>, now), v.res, cReq, now,
                       1, "valid", found.key)
    ELSE passUpstream(c, cReq, Resource(Upstream(o, cReq.Request, <<>>, now)),
                      now, now + o.delay, "changed", 1)

\* Handler.ServeHTTP from the lookup on, without the tests of only-if-cached
ServeFoundAnyway(c, cReq, found, o, now) ==
    IF ~found.found
    THEN passUpstream(c, cReq, Resource(Upstream(o, cReq.Request, <<>>, now)),
                           now, now + o.delay, "miss", 0)
    ELSE IF needsValidation(found.res, cReq, now)
    THEN ServeValidated(c, cReq, found, Validate(cReq.Request, found.res, o, now),
                             o, now + o.delay)
    ELSE serveResource(c, found.res, cReq, now, 0, "fresh", found.key)

\* Handler.ServeHTTP from the lookup on
ServeFound(c, cReq, found, o, now) ==
    IF ~found.found
    THEN IF Has(cReq.CacheControl, Word("only-if-cached"))
         THEN Outcome("", 504, EmptyBody, 0, c, <<>>, "absent", cReq.Key, NoResource)
         ELSE passUpstream(c, cReq, Resource(Upstream(o, cReq.Request, <<>>, now)),
                           now, now + o.delay, "miss", 0)
    ELSE IF needsValidation(found.res, cReq, now)
    THEN IF Has(cReq.CacheControl, Word("only-if-cached"))
         THEN Outcome("", 504, EmptyBody, 0, c, <<>>, "unvalidated", found.key, found.res)
         ELSE ServeValidated(c, cReq, found, Validate(cReq.Request, found.res, o, now),
                             o, now + o.delay)
    ELSE serveResource(c, found.res, cReq, now, 0, "fresh", found.key)

\* Handler.ServeHTTP from the parsed request on
ServeRequest(c, cReq, o, now) ==
    IF cReq.err
    THEN Outcome("", 400, EmptyBody, 0, c, <<>>, "invalid", cReq.Key, NoResource)
    ELSE IF ~requestIsCacheable(cReq)
    THEN pipeUpstream(c, cReq, Resource(Upstream(o, cReq.Request, <<>>, now)), now + o.delay)
    ELSE ServeFound(c, cReq, lookup(c, cReq), o, now)

\* Handler.ServeHTTP
ServeHTTP(c, r, o, now) == ServeRequest(c, newCacheRequest(r), o, now)

InitHandler ==
    /\ backend = "memory" /\ capacity = UnboundedCapacity /\ list = <<>> /\ table = {}
    /\ size = 0 /\ files = [k \in StorageKeys |-> <<>>] /\ hung = FALSE /\ recency = <<>>
    /\ goroutines = <<>>
    /\ last = [op |-> "init"]
    /\ clock = 0
    /\ bodyFiles = NewCache.body /\ headerFiles = NewCache.header /\ stale = NewCache.stale
    /\ pending = <<>> /\ marked = <<>>
    /\ hShared = FALSE
    /\ upstream \in Origins

\* a client's request is handled; the store goroutine it starts is left
\* waiting; each call to the origin takes the origin's delay
Request(r) ==
    \E out \in {ServeHTTP(TheCache, r, upstream, clock)} :
    /\ Len(pending) + Len(out.job) <= MaxPending
    /\ clock + out.calls * upstream.delay <= LastInstant
    /\ clock' = clock + out.calls * upstream.delay
    /\ SetCache(out.cache)
    /\ pending' = pending \o out.job
    /\ last' = [op |-> "Request", r |-> r, xcache |-> out.xcache, status |-> out.status,
                body |-> out.body, calls |-> out.calls, path |-> out.path,
                key |-> out.key, header |-> out.res.header, age |-> out.age,
                warning |-> out.warning]
    /\ UNCHANGED <<storageVars, upstream, hShared, marked>>

\* a store goroutine runs: Cache.Store under its keys
StoreDone(i) ==
    /\ i \in 1..Len(pending)
    /\ SetCache(CacheStore(TheCache, pending[i].res, pending[i].keys))
    /\ pending' = RemoveAt(pending, i)
    /\ last' = [op |-> "StoreDone", job |-> pending[i]]
    /\ UNCHANGED <<storageVars, clock, upstream, hShared, marked>>

\* the origin's page changes
OriginChange ==
    /\ upstream.version < MaxVersion
    /\ upstream' = [upstream EXCEPT !.version = @ + 1]
    /\ last' = [op |-> "OriginChange"]
    /\ UNCHANGED <<storageVars, clock, bodyFiles, headerFiles, stale, pending, hShared, marked>>

RequestAny == \E r \in Requests : Request(r)

StoreDoneAny == \E i \in 1..MaxPending : StoreDone(i)

NextHandler == RequestAny \/ StoreDoneAny \/ Tick \/ OriginChange

SpecHandler == InitHandler /\ [][NextHandler]_vars

(***************************************************************************)
(* Properties of the Handler                                               *)
(***************************************************************************)
\* the request's Cache-Control does not parse, or has no-store or no-cache
Forbids(r) ==
    \/ newCacheRequest(r).err
    \/ Has(newCacheRequest(r).CacheControl, Word("no-store"))
    \/ Has(newCacheRequest(r).CacheControl, Word("no-cache"))

\* what handling r in the current state comes to
Handled(r) == ServeHTTP(TheCache, r, upstream, clock)

\* what lookup finds for r in the current state
Found(r) == lookup(TheCache, newCacheRequest(r))

VaryKey(r) == KeyVary(NewRequestKey(r), upstream.vary, r)

\* the resource is younger than its max-age, nothing forces its validation and
\* the request asks for none
FreshFor(res, r) ==
    /\ Has(res.CacheControl.cc, Word("max-age"))
    /\ ~Duration(res.CacheControl.cc, Word("max-age")).err
    /\ ~Age(res, clock).err
    /\ Age(res, clock).d < Duration(res.CacheControl.cc, Word("max-age")).d
    /\ ~MustValidate(res, Shared)
    /\ ~IsStale(res)
    /\ ~Has(newCacheRequest(r).CacheControl, Word("max-age"))
    /\ ~Has(newCacheRequest(r).CacheControl, Word("min-fresh"))

C8_Theorem ==
    \A r \in AnyRequests :
        LET out == Handled(r)
            found == Found(r)
        IN (/\ requestIsCacheable(newCacheRequest(r))
            /\ found.found
            /\ FreshFor(found.res, r))
             => /\ out.xcache = "HIT"
                /\ out.status = 200
                /\ out.body = IF r.method = "HEAD" THEN EmptyBody ELSE bodyFiles[found.key]
                /\ out.calls = 0
                /\ out.cache = TheCache
                /\ out.job = <<>>

\* a GET has just been answered HIT from an entry of age 1 with max-age=2,
\* without a call to the origin
C8_Witness ==
    /\ last.op = "Request" /\ last.r.method = "GET" /\ last.path = "fresh"
    /\ last.xcache = "HIT" /\ last.calls = 0 /\ last.age = 1
    /\ Duration(ParseCacheControl(last.header.CacheControl).cc, Word("max-age")).d = 2
    /\ last.body = bodyFiles[last.key]

\* C9: when a stored resource needed validation and the validator reported
\* valid, the client got the stored body with X-Cache: HIT, the origin was
\* called once, and the entry served now holds the headers of the validation
\* response and the body it had
C9_Original ==
    (last.op = "Request" /\ last.path = "valid") =>
        /\ last.xcache = "HIT"
        /\ last.calls = 1
        /\ last.key \in DOMAIN bodyFiles
        /\ last.body = bodyFiles[last.key]
        /\ CacheHeader(TheCache, last.key).h = last.header

\* C10: when validation reported changed, the client got the origin's new
\* body with X-Cache: MISS and a store goroutine for it waits; once that
\* goroutine has run, its keys hold the new response, and the same request
\* made while that response is fresh is a HIT with the new body
C10_Theorem ==
    /\ (last.op = "Request" /\ last.path = "changed") =>
          /\ last.xcache = "MISS"
          /\ last.calls = 2
          /\ last.body = Upstream(upstream, last.r, <<>>, clock).body
          /\ pending # <<>>
          /\ pending[Len(pending)].res.body = last.body
          /\ pending[Len(pending)].keys[1] = NewRequestKey(last.r)
    /\ (last.op = "StoreDone" /\ last.job.why = "changed") =>
          /\ \A i \in 1..Len(last.job.keys) :
                /\ CacheRetrieve(TheCache, last.job.keys[i]).found
                /\ bodyFiles[last.job.keys[i]] = last.job.res.body
                /\ CacheHeader(TheCache, last.job.keys[i]).h = last.job.res.header
          /\ LET out == Handled(last.job.req)
                 found == Found(last.job.req)
             IN (found.found /\ FreshFor(found.res, last.job.req)) =>
                   /\ out.xcache = "HIT"
                   /\ out.body = last.job.res.body
                   /\ out.calls = 0

\* the store goroutine of a changed response has just run, replacing version 1
\* by version 2, and the same request would now be a HIT with version 2
C10_Witness ==
    /\ last.op = "StoreDone" /\ last.job.why = "changed"
    /\ last.job.res.body.ver = 2
    /\ bodyFiles[last.job.keys[1]].ver = 2
    /\ Handled(last.job.req).xcache = "HIT"
    /\ Handled(last.job.req).body.ver = 2

(***************************************************************************)
(* Part IV: the Handler's decisions, request by request and response by    *)
(* response.  The origins answer with the statuses and Cache-Control       *)
(* values the decisions depend on, the clients send the requests they      *)
(* depend on, and the Handler is shared or private.                        *)
(***************************************************************************)
\* a request like Req, with its Host and its precondition header
ReqWith(method, cc, host, cond) ==
    [Req(method, "en", cc) EXCEPT !.host = host, !.cond = cond]

\* Cache-Control: only-if-cached, no-cache
OnlyIfCachedNoCache == Word("only-if-cached") \o <<Comma>> \o Word("no-cache")

\* the requests the clients send
PolicyRequests ==
    {Req("GET", "en", <<>>), Req("HEAD", "en", <<>>), Req("POST", "en", <<>>),
     Req("GET", "en", Word("only-if-cached")), Req("HEAD", "en", Word("only-if-cached")),
     Req("GET", "en", OnlyIfCachedNoCache),
     ReqWith("GET", <<>>, "example.org", "If-Match"),
     ReqWith("GET", <<>>, "", "")}

\* Cache-Control: max-age=2 after another directive
WithMaxAge(cc) == cc \o <<Comma, Space>> \o Directive("max-age", "2")

\* Cache-Control: private="X-Llamas"
PrivateXLlamas == <<"private", Equals, Quote, "X-Llamas", Quote>>

\* origins whose responses are private, wholly or in the X-Llamas header
PrivateOrigins ==
    {Origin(WithMaxAge(Word("private")), "", 200, TRUE, "fully"),
     Origin(WithMaxAge(PrivateXLlamas), "", 200, TRUE, "fully")}

\* the origins: no-store and no-cache; max-age=1; max-age=2 with several statuses; private;
\* no expiration with and without validators; public alone
PolicyOrigins ==
    {Origin(Word("no-store"), "", 200, TRUE, ""),
     Origin(WithMaxAge(Word("no-cache")), "", 200, TRUE, ""),
     Origin(Directive("max-age", "1"), "", 200, TRUE, "")} \cup
    {Origin(Directive("max-age", "2"), "", st, TRUE, "") : st \in {200, 203, 206, 307, 402, 404}} \cup
    PrivateOrigins \cup
    {Origin(<<>>, "", st, e, "") : st \in {200, 404}, e \in BOOLEAN} \cup
    {Origin(Word("public"), "", st, FALSE, "") : st \in {200, 302, 404}}

\* NewHandler in front of one of the origins; Shared is set for the origins
\* whose handling depends on it
InitPolicy ==
    /\ backend = "memory" /\ capacity = UnboundedCapacity /\ list = <<>> /\ table = {}
    /\ size = 0 /\ files = [k \in StorageKeys |-> <<>>] /\ hung = FALSE /\ recency = <<>>
    /\ goroutines = <<>>
    /\ last = [op |-> "init"]
    /\ clock = 0
    /\ bodyFiles = NewCache.body /\ headerFiles = NewCache.header /\ stale = NewCache.stale
    /\ pending = <<>> /\ marked = <<>>
    /\ upstream \in PolicyOrigins
    /\ hShared \in BOOLEAN
    /\ hShared => upstream \in PrivateOrigins \cup {Origin(Directive("max-age", "2"), "", 200, TRUE, "")}

PolicyRequestAny == \E r \in PolicyRequests : Request(r)

NextPolicy == PolicyRequestAny \/ StoreDoneAny \/ Tick

SpecPolicy == InitPolicy /\ [][NextPolicy]_vars

(***************************************************************************)
(* Properties of the Handler's decisions                                   *)
(***************************************************************************)
\* the request carries one of If-Match, If-Unmodified-Since, If-Range
HasPrecondition(r) == r.cond \in {"If-Match", "If-Unmodified-Since", "If-Range"}

\* GET or HEAD, no precondition header, neither no-store nor no-cache, max-age not 0
CacheableRequest(r) ==
    /\ r.method \in {"GET", "HEAD"}
    /\ ~HasPrecondition(r)
    /\ ~Has(ParseCacheControl(r.cc).cc, Word("no-store"))
    /\ ~Has(ParseCacheControl(r.cc).cc, Word("no-cache"))
    /\ CCGet(ParseCacheControl(r.cc).cc, Word("max-age")).v # Word("0")

\* C11: a well-formed request is classified cacheable if and only if it is GET
\* or HEAD, carries no If-Match, If-Unmodified-Since or If-Range, has neither
\* no-store nor no-cache and its max-age is not 0: a request that was handled
\* went to the lookup when it is one of these, and every other request was
\* piped upstream without a lookup
C11_Original ==
    (last.op = "Request" /\ last.status # 400) =>
        (last.path = "pipe" <=> ~CacheableRequest(last.r))

\* the Cache-Control value has no-cache or no-store
Forbidden(cc) ==
    \/ Has(ParseCacheControl(cc).cc, Word("no-store"))
    \/ Has(ParseCacheControl(cc).cc, Word("no-cache"))

\* the origin of the current state, answering with another Cache-Control and
\* with version v of its page
Answering(cc, v) == [upstream EXCEPT !.cc = cc, !.version = v]

StoreableStatuses == {200, 301, 302, 303, 304, 307, 404, 410}

\* Cache-Control: private, or private="..." naming headers
HasPrivate(cc) == Has(ParseCacheControl(cc).cc, Word("private"))

\* the origin's responses have max-age, neither no-cache nor no-store, and are
\* not private
PlainMaxAge(o) ==
    /\ ~Forbidden(o.cc)
    /\ ~HasPrivate(o.cc)
    /\ ~Duration(ParseCacheControl(o.cc).cc, Word("max-age")).err
    /\ Duration(ParseCacheControl(o.cc).cc, Word("max-age")).d > 0

\* C13: only responses with a status among 200, 301, 302, 303, 304, 307, 404,
\* 410 are handed to a store goroutine; a response with one of these statuses
\* that meets the other rules was a MISS and is stored; a response with any
\* other status was a SKIP
C13_Original ==
    /\ \A i \in 1..Len(pending) : pending[i].res.status \in StoreableStatuses
    /\ (last.op = "Request" /\ last.path = "miss") =>
          /\ (last.status \in StoreableStatuses /\ PlainMaxAge(upstream)) =>
                 last.xcache = "MISS" /\ pending # <<>>
          /\ last.status \notin StoreableStatuses => last.xcache = "SKIP"

\* Cache-Control: private="..." with a list of header names
HasPrivateFields(cc) ==
    HasPrivate(cc) /\ ParseCacheControl(cc).cc[Word("private")] # <<>>

\* a GET that found nothing stored was answered MISS and its response is to be stored
MissIsStored ==
    (last.op = "Request" /\ last.r.method = "GET" /\ last.path = "miss") =>
        last.xcache = "MISS" /\ pending # <<>>

\* C14: of the responses with private in their Cache-Control, a shared cache
\* never stores one with blanket private; it stores one with private="X-Llamas",
\* without the X-Llamas header, and no HIT carries that header; a private cache
\* stores both kinds with the X-Llamas header
C14_Original ==
    HasPrivate(upstream.cc) =>
        /\ (Shared /\ ~HasPrivateFields(upstream.cc)) =>
              /\ bodyFiles = <<>> /\ headerFiles = <<>> /\ pending = <<>>
              /\ (last.op = "Request" /\ last.path = "miss") => last.xcache = "SKIP"
        /\ (Shared /\ HasPrivateFields(upstream.cc)) =>
              /\ MissIsStored
              /\ \A k \in DOMAIN headerFiles : CacheHeader(TheCache, k).h.XLlamas = ""
              /\ (last.op = "Request" /\ last.xcache = "HIT") => last.header.XLlamas = ""
        /\ ~Shared =>
              /\ MissIsStored
              /\ \A k \in DOMAIN headerFiles :
                    CacheHeader(TheCache, k).h.XLlamas = upstream.x
              /\ (last.op = "Request" /\ last.xcache = "HIT") =>
                    last.header.XLlamas = upstream.x

\* the statuses 200, 203, 204, 300, 301, 404, 410
DefaultCacheable == {200, 203, 204, 300, 301, 404, 410}

\* the response that the latest request got from the origin
LastResponse == NewResource(last.status, last.body, last.header)

\* explicit expiration, or validators, or positive heuristic freshness, or a
\* default-cacheable status with public
MayBeCached(res) ==
    \/ HasExplicitExpiration(res)
    \/ HasValidators(res)
    \/ HeuristicFreshness(res, clock) > 0
    \/ (res.status \in DefaultCacheable /\ Has(res.CacheControl.cc, Word("public")))

\* C15: a response that meets the other rules (a storeable status, neither
\* no-cache nor no-store, not private) was a MISS and is to be stored if and
\* only if it has explicit expiration, validators or positive heuristic
\* freshness, or its status is among 200, 203, 204, 300, 301, 404, 410 and
\* public is present; else it was a SKIP and is not stored
C15_Original ==
    (/\ last.op = "Request" /\ last.path = "miss"
     /\ last.status \in storeable \cap StoreableStatuses
     /\ ~Forbidden(upstream.cc) /\ ~HasPrivate(upstream.cc)) =>
        IF MayBeCached(LastResponse)
        THEN last.xcache = "MISS" /\ pending # <<>>
        ELSE last.xcache = "SKIP" /\ pending = <<>>

\* HTTP/1.1 requests without a Host
Hostless ==
    {ReqWith(m, cc, "", "") : m \in {"GET", "HEAD", "POST"},
                              cc \in {<<>>, Word("no-store"), Word("only-if-cached")}}

OnlyIfCached(r) == Has(ParseCacheControl(r.cc).cc, Word("only-if-cached"))

\* the store holds a resource for the request that needs no validation
Servable(r) ==
    /\ Found(r).found
    /\ ~needsValidation(Found(r).res, newCacheRequest(r), clock)

\* C17 as stated: every request with only-if-cached that cannot be served from
\* the store without validation is answered 504, without a call to the origin
\* and with the cache unchanged
C17_Original ==
    \A r \in PolicyRequests :
        LET out == Handled(r) IN
        (OnlyIfCached(r) /\ ~Servable(r)) =>
            /\ out.status = 504
            /\ out.calls = 0
            /\ out.cache = TheCache
            /\ out.job = <<>>

\* C17: a request with only-if-cached that is classified cacheable is answered
\* 504 when its key is absent or the stored resource needs validation, without
\* a call to the origin, with the cache unchanged and no store goroutine; else
\* it is a HIT without a call to the origin.  One that is not classified
\* cacheable (no-cache, no-store, max-age=0) is piped upstream.
C17_Theorem ==
    /\ \A r \in PolicyRequests \cup AnyRequests :
          LET out == Handled(r) IN
          OnlyIfCached(r) =>
              IF ~requestIsCacheable(newCacheRequest(r))
              THEN out.path = "pipe" /\ out.calls = 1
              ELSE IF Servable(r)
              THEN out.xcache = "HIT" /\ out.calls = 0
              ELSE /\ out.status = 504
                   /\ out.calls = 0
                   /\ out.cache = TheCache
                   /\ out.job = <<>>
    /\ (last.op = "Request" /\ OnlyIfCached(last.r) /\ last.path # "pipe") =>
          last.calls = 0 /\ (last.status = 504 \/ last.xcache = "HIT")

\* a GET with only-if-cached has just been answered 504 because the stored
\* resource, older than its max-age, needs validation
C17_Witness ==
    /\ last.op = "Request" /\ last.r = Req("GET", "en", Word("only-if-cached"))
    /\ last.status = 504 /\ last.calls = 0 /\ last.path = "unvalidated"
    /\ NewRequestKey(last.r) \in DOMAIN bodyFiles
    /\ pending = <<>>

\* the methods that change the state of the origin
Unsafe == {"POST", "PUT", "DELETE", "PATCH"}

\* C18: right after a POST, PUT, DELETE or PATCH that the origin answered with
\* a non-error status, the GET and HEAD keys of the URL carry a stale marker
\* and a GET for the URL is not a HIT without a call to the origin
C18_Original ==
    (last.op = "Request" /\ last.r.method \in Unsafe /\ last.status < 400) =>
        /\ \A m \in {"GET", "HEAD"} : NewKey(m, last.r.url) \in DOMAIN stale
        /\ LET out == Handled(Req("GET", "en", <<>>)) IN
           out.xcache # "HIT" \/ out.calls > 0

\* the entry stored under the GET key of the request's URL
GetEntry(r) == CacheRetrieve(TheCache, ForMethod(NewRequestKey(r), "GET"))

\* the GET entry is there, has explicit expiration, and the request is cacheable
HeadFromGet(r) ==
    /\ GetEntry(r).found
    /\ HasExplicitExpiration(GetEntry(r).res)
    /\ requestIsCacheable(newCacheRequest(r))

C20_Original ==
    last.op = "Request" => last.xcache \in {"HIT", "MISS", "SKIP"}

(***************************************************************************)
(* Part V: the age of what the cache serves.  The origins send an Age      *)
(* header or none, their clocks run behind or ahead of the cache's, and    *)
(* their answers take time.                                                *)
(***************************************************************************)

\* the origin o sending Age: age, with its clock skew ahead, answering after delay
Aged(o, age, skew, delay) == [o EXCEPT !.age = age, !.skew = skew, !.delay = delay]

\* an Age header of two seconds
SentAge == 2

\* origins whose responses stay fresh for the whole run, and some that need
\* validation after a second
AgeOrigins ==
    {Aged(Origin(Directive("max-age", m), "", 200, TRUE, ""), a, k, d) :
        m \in {"1", "5"}, a \in {NoTime, SentAge}, k \in {-1, 0, 1}, d \in {0, 1}}

\* a GET and a HEAD that may be answered from the cache, and a HEAD that is piped
AgeRequests ==
    {Req("GET", "en", <<>>), Req("HEAD", "en", <<>>), Req("HEAD", "en", Word("no-cache"))}

\* the cache starts empty at instant 1, so that an origin one second behind
\* sends the Date 0
InitAge ==
    /\ backend = "memory" /\ capacity = UnboundedCapacity /\ list = <<>> /\ table = {}
    /\ size = 0 /\ files = [k \in StorageKeys |-> <<>>] /\ hung = FALSE /\ recency = <<>>
    /\ goroutines = <<>>
    /\ last = [op |-> "init"]
    /\ clock = 1
    /\ bodyFiles = NewCache.body /\ headerFiles = NewCache.header /\ stale = NewCache.stale
    /\ pending = <<>> /\ marked = <<>>
    /\ hShared = FALSE
    /\ upstream \in AgeOrigins

\* a second passes
Wait ==
    /\ clock < MaxLate
    /\ clock' = clock + 1
    /\ UNCHANGED <<storageVars, last, bodyFiles, headerFiles, stale, pending, upstream, hShared, marked>>

AgeRequestAny == \E r \in AgeRequests : Request(r)

NextAge == AgeRequestAny \/ StoreDoneAny \/ Wait

SpecAge == InitAge /\ [][NextAge]_vars

(***************************************************************************)
(* Properties of the age                                                   *)
(***************************************************************************)

\* the GET request for the page
GetPage == Req("GET", "en", <<>>)

\* the age computed for the stored page at instant now
StoredAge(c, now) == Age(CacheRetrieve(c, NewRequestKey(GetPage)).res, now)

\* the page is stored
PageStored(c) == CacheRetrieve(c, NewRequestKey(GetPage)).found

\* in a step that neither freshens nor overwrites the stored page, its age does
\* not go down
AgeNondecreasing ==
    (PageStored(TheCache) /\ headerFiles' = headerFiles /\ bodyFiles' = bodyFiles) =>
        StoredAge(TheCache, clock').d >= StoredAge(TheCache, clock).d

\* the age of the stored page, and the Age a client has just been sent, is not negative
AgeNotNegative ==
    /\ PageStored(TheCache) => StoredAge(TheCache, clock).d >= 0
    /\ (last.op = "Request" /\ last.xcache = "HIT") => last.age >= 0

\* C21: while a stored resource is neither freshened nor overwritten its age
\* never goes down as time passes, and the age is never negative, whatever the
\* skew between the origin's Date and the cache's clock
C21_Original == [](AgeNotNegative) /\ [][AgeNondecreasing]_vars

\* max(apparent_age, corrected_age_value) of a response of the origin o:
\* response_time - Date is o.delay - o.skew, the response delay is o.delay
CorrectedInitialAge(o) ==
    Max(Max(0, o.delay - o.skew), (IF o.age = NoTime THEN 0 ELSE o.age) + o.delay)

\* the instant the response that o stamped with date arrived at the cache
ResponseTime(o, date) == date - o.skew + o.delay

\* corrected_initial_age + resident_time at instant now, for the response of o
\* stamped with date
CurrentAge(o, date, now) == CorrectedInitialAge(o) + (now - ResponseTime(o, date))

\* the instant a request handled now has its answer: every call to the origin
\* takes the origin's delay
Answered(out) == clock + out.calls * upstream.delay

\* C22: the Age a client is sent, with the origin's response (MISS) and on a
\* HIT, is max(max(0, response_time - Date), Age + response delay) plus the
\* time the response has been in the cache
C22_Original ==
    \A r \in AgeRequests :
        LET out == Handled(r) IN
        out.xcache \in {"HIT", "MISS"} =>
            out.age = CurrentAge(upstream, out.res.header.Date, Answered(out))

(***************************************************************************)
(* Part VI: freshness.  The origins limit the lifetime of their responses  *)
(* with max-age, s-maxage and Expires and ask for revalidation, the        *)
(* clients accept stale responses with max-stale, the Handler is shared or *)
(* private, and time passes until the stored responses are stale.          *)
(***************************************************************************)

\* the origin o sending Expires: its Date plus lifetime
Expiring(o, lifetime) == [o EXCEPT !.expires = lifetime]

\* two directives of a Cache-Control header
Both(cc1, cc2) == cc1 \o <<Comma, Space>> \o cc2

FreshOrigins ==
    {Origin(Directive("max-age", "1"), "", 200, e, "") : e \in BOOLEAN} \cup
    {Origin(Both(Directive("max-age", "2"), Word("must-revalidate")), "", 200, TRUE, ""),
     Origin(Both(Directive("max-age", "2"), Word("proxy-revalidate")), "", 200, TRUE, ""),
     Origin(Both(Directive("s-maxage", "2"), Directive("max-age", "0")), "", 200, TRUE, ""),
     Origin(Both(Directive("max-age", "2"), Directive("s-maxage", "1")), "", 200, TRUE, ""),
     Expiring(Origin(<<>>, "", 200, TRUE, ""), 2),
     Expiring(Origin(Directive("max-age", "1"), "", 200, TRUE, ""), 3),
     Origin(<<>>, "", 200, TRUE, "")}

\* max-stale without a value and with the values 0, 1 and 2
MaxStales ==
    {Word("max-stale")} \cup {Directive("max-stale", d) : d \in {"0", "1", "2"}}

\* GET with and without max-stale, and a HEAD that is piped
FreshRequests ==
    {Req("GET", "en", cc) : cc \in {<<>>} \cup MaxStales} \cup
    {Req("HEAD", "en", Word("no-cache"))}

InitFresh ==
    /\ backend = "memory" /\ capacity = UnboundedCapacity /\ list = <<>> /\ table = {}
    /\ size = 0 /\ files = [k \in StorageKeys |-> <<>>] /\ hung = FALSE /\ recency = <<>>
    /\ goroutines = <<>>
    /\ last = [op |-> "init"]
    /\ clock = 0
    /\ bodyFiles = NewCache.body /\ headerFiles = NewCache.header /\ stale = NewCache.stale
    /\ pending = <<>> /\ marked = <<>>
    /\ hShared \in BOOLEAN
    /\ upstream \in FreshOrigins

FreshRequestAny == \E r \in FreshRequests : Request(r)

NextFresh == FreshRequestAny \/ StoreDoneAny \/ Wait \/ OriginChange

SpecFresh == InitFresh /\ [][NextFresh]_vars

(***************************************************************************)
(* Properties of freshness                                                 *)
(***************************************************************************)

\* by how much the age of res exceeds its freshness lifetime at instant now
Staleness(res, now) == Age(res, now).d - MaxAge(res, Shared, now).d

\* C23: a response served from the cache carries Warning 110 when the age of
\* the resource exceeds its freshness lifetime, and carries none when the
\* resource is fresh
C23_Original ==
    \A r \in FreshRequests :
        LET out == Handled(r) IN
        (out.xcache = "HIT" /\ out.status = 200) =>
            (110 \in out.warning <=> Staleness(out.res, Answered(out)) > 0)

\* the stored resource carries must-revalidate, or the cache is shared and it
\* carries proxy-revalidate or s-maxage, or Retrieve marked it stale
ValidationRequired(res) ==
    LET cc == res.CacheControl.cc IN
    \/ Has(cc, Word("must-revalidate"))
    \/ hShared /\ (Has(cc, Word("proxy-revalidate")) \/ Has(cc, Word("s-maxage")))
    \/ IsStale(res)

\* C28: a stored resource with must-revalidate, or with proxy-revalidate or
\* s-maxage in a shared cache, or retrieved as stale, is never served without
\* the origin being contacted first, however fresh it is
C28_Theorem ==
    \A r \in FreshRequests :
        LET found == lookup(TheCache, newCacheRequest(r))
            out == Handled(r)
        IN (requestIsCacheable(newCacheRequest(r)) /\ found.found
              /\ ValidationRequired(found.res)) => out.calls >= 1

\* a response with must-revalidate has just been served from the cache, younger
\* than its max-age, after one call to the origin validated it
C28_Witness ==
    /\ last.op = "Request" /\ last.xcache = "HIT" /\ last.path = "valid" /\ last.calls = 1
    /\ Has(ParseCacheControl(last.header.CacheControl).cc, Word("must-revalidate"))
    /\ last.age < 2

\* the request's max-stale accepts a response that is s past its lifetime: it
\* has no value, or its value is at least s
MaxStaleAccepts(cc, s) ==
    /\ Has(cc, Word("max-stale"))
    /\ \/ CCGet(cc, Word("max-stale")).v = <<>>
       \/ /\ ~Duration(cc, Word("max-stale")).err
          /\ s <= Duration(cc, Word("max-stale")).d

\* C29: a stored response whose age exceeds its effective max-age by s is served
\* without validation if and only if the request carries max-stale with no
\* value, or max-stale=d with s <= d; with max-stale=0, or without max-stale,
\* it is validated
C29_Original ==
    \A r \in FreshRequests :
        LET cReq == newCacheRequest(r)
            found == lookup(TheCache, cReq)
            out == Handled(r)
        IN (requestIsCacheable(cReq) /\ found.found /\ ~ValidationRequired(found.res)
              /\ Staleness(found.res, clock) > 0) =>
              (out.calls = 0 <=> MaxStaleAccepts(cReq.CacheControl, Staleness(found.res, clock)))

\* the freshness lifetime as the specification words it: s-maxage if the cache
\* is shared and the directive is present, else max-age if present, else
\* Expires - now, else zero
Lifetime(res, shared, now) ==
    LET cc == res.CacheControl.cc IN
    IF shared /\ Has(cc, Word("s-maxage")) THEN Duration(cc, Word("s-maxage")).d
    ELSE IF Has(cc, Word("max-age")) THEN Duration(cc, Word("max-age")).d
    ELSE IF res.header.Expires >= 0 THEN res.header.Expires - now
    ELSE 0

\* the origin of the scenario, s-maxage=60, max-age=0 in seconds of the model, is
\* asked a second time, one second after its response was stored at 0, its
\* page being the same
SecondRequest(r) ==
    /\ upstream.cc = Both(Directive("s-maxage", "2"), Directive("max-age", "0"))
    /\ r = GetPage /\ clock = 1
    /\ lookup(TheCache, newCacheRequest(r)).found
    /\ lookup(TheCache, newCacheRequest(r)).res.header.Date = 0
    /\ lookup(TheCache, newCacheRequest(r)).res.header.Etag =
          Upstream(upstream, r, <<>>, clock).header.Etag

\* C30: the freshness lifetime of a resource is s-maxage whenever the cache is
\* shared and s-maxage is present, otherwise max-age, otherwise Expires - now,
\* otherwise zero; so for s-maxage=60, max-age=0 a second request at 10 seconds
\* is a HIT in shared mode and a MISS in private mode
C30_Original ==
    \A r \in FreshRequests :
        LET found == lookup(TheCache, newCacheRequest(r)) IN
        /\ found.found =>
              MaxAge(found.res, hShared, clock).d = Lifetime(found.res, hShared, clock)
        /\ SecondRequest(r) => Handled(r).xcache = (IF hShared THEN "HIT" ELSE "MISS")

(***************************************************************************)
(* Part VII: package storage with concurrent callers.  A goroutine runs one *)
(* call of the Storage interface at a time, and a step is what runs under  *)
(* one hold of the LRUList mutex, or one access to memory or to a file     *)
(* outside it: CappedLRUList.size is read and written under no lock, and   *)
(* its own mutex and DiskStorage's are taken by no Store, Get or Delete.   *)
(***************************************************************************)

Goroutines == {1, 2}

\* the calls the first goroutine makes at most; every other one makes one
MaxCalls == 2

CallsOf(g) == IF g = 1 THEN MaxCalls ELSE 1

\* the keys and the storables of the concurrent callers
ConcKeys == {"a", "bb"}

ConcStorables ==
    {NewByteStorable(b, 200, [ContentLength |-> <<>>, XTest |-> <<"llamas">>]) : b \in Bodies}

\* the storable whose header and status code the callers hand to Freshen
ConcFreshened == NewByteStorable(<<>>, 404, [ContentLength |-> <<>>, XTest |-> <<"alpacas">>])

\* no storable
NoStorable == NewByteStorable(<<>>, 0, [ContentLength |-> <<>>, XTest |-> <<>>])

\* a goroutine that runs no call.  Of a running one: pc, the next step; op, key
\* and s, the call and its arguments; ent, the storable it got or is adding;
\* dkey, the key CappedLRUList.Delete was called with; tmp, the value of
\* cl.size it read; ret, where CappedLRUList.Delete returns to; want, the
\* bytes its body handle had when Get returned it; n, the calls it has made
Idle ==
    [pc |-> "idle", op |-> "", key |-> "", s |-> NoStorable, ent |-> NoStorable,
     dkey |-> "", tmp |-> 0, ret |-> "", want |-> <<>>, n |-> 0]

\* the goroutine G has returned from its call
Done(G) == [Idle EXCEPT !.n = G.n]

\* the goroutine g moves on
Becomes(g, rec) == goroutines' = [goroutines EXCEPT ![g] = rec]

\* cl.size > cl.capacity on uint64: a size below zero has wrapped around
AboveCapacity(sz, cap) == sz < 0 \/ sz > cap

\* the step a call begins with
FirstStep(op) ==
    CASE op \in {"Store", "Delete"} -> "exists"
      [] op \in {"Get", "GetMeta"} -> "get"
      [] OTHER -> "freshen"

\* the step after Store's Delete(key): the disk backend creates the file first
AfterDelete == IF backend = "disk" THEN "create" ELSE "copy"

\* where a goroutine is after CappedLRUList.Delete returned
Returned(G) ==
    IF G.ret = "done" THEN Done(G)
    ELSE [G EXCEPT !.pc = IF G.ret = "copy" THEN AfterDelete ELSE "trim"]

InitConcurrent ==
    /\ backend \in {"memory", "disk"}
    /\ capacity = MaxCapacity
    /\ list = <<>> /\ table = {} /\ size = 0
    /\ files = [k \in StorageKeys |-> <<>>]
    /\ hung = FALSE /\ recency = <<>>
    /\ goroutines = [g \in Goroutines |-> Idle]
    /\ last = Call("init", "", <<>>, FALSE, FALSE, 0)
    /\ clock = 0 /\ bodyFiles = <<>> /\ headerFiles = <<>> /\ stale = <<>>
    /\ pending = <<>> /\ upstream = <<>> /\ hShared = FALSE /\ marked = <<>>

\* a caller calls Store, Get, GetMeta, Freshen or Delete
Begin(g) ==
    /\ goroutines[g].pc = "idle"
    /\ goroutines[g].n < CallsOf(g)
    /\ \E op \in {"Store", "Get", "GetMeta", "Freshen", "Delete"}, k \in ConcKeys :
       \E s \in (CASE op = "Store" -> ConcStorables
                   [] op = "Freshen" -> {ConcFreshened}
                   [] OTHER -> {NoStorable}) :
          Becomes(g, [Idle EXCEPT !.pc = FirstStep(op), !.op = op, !.key = k, !.s = s,
                                  !.n = goroutines[g].n + 1])
    /\ UNCHANGED <<backend, capacity, list, table, size, files, hung, recency, last, cacheVars>>

\* MemoryStorage.Delete / DiskStorage.Delete, also as Store calls it first:
\* ms.items.Get(key), and ms.items.Delete(key) if the key exists
Exists(g) ==
    LET G == goroutines[g]
        got == LRUGet(list, table, G.key)
    IN
    /\ G.pc = "exists"
    /\ list' = got.list
    /\ Becomes(g, IF got.found
                  THEN [G EXCEPT !.pc = "del_get", !.dkey = G.key,
                                 !.ret = IF G.op = "Store" THEN "copy" ELSE "done"]
                  ELSE IF G.op = "Store" THEN [G EXCEPT !.pc = AfterDelete]
                  ELSE Done(G))
    /\ UNCHANGED <<backend, capacity, table, size, files, hung, recency, last, cacheVars>>

\* CappedLRUList.Delete: cl.LRUList.Get(key)
DeleteGet(g) ==
    LET G == goroutines[g]
        got == LRUGet(list, table, G.dkey)
    IN
    /\ G.pc = "del_get"
    /\ list' = got.list
    /\ Becomes(g, IF got.found THEN [G EXCEPT !.pc = "del_rm", !.ent = got.storable]
                  ELSE Returned(G))
    /\ UNCHANGED <<backend, capacity, table, size, files, hung, recency, last, cacheVars>>

\* CappedLRUList.Delete: cl.LRUList.Delete(key)
DeleteRemove(g) ==
    LET G == goroutines[g]
        d == LRUDelete(list, table, G.dkey)
    IN
    /\ G.pc = "del_rm"
    /\ list' = d.list /\ table' = d.table
    /\ Becomes(g, [G EXCEPT !.pc = "del_rd"])
    /\ UNCHANGED <<backend, capacity, size, files, hung, recency, last, cacheVars>>

\* cl.size -= n and cl.size += n: the read of cl.size
SizeRead(g) ==
    LET G == goroutines[g] IN
    /\ G.pc \in {"del_rd", "add_rd"}
    /\ Becomes(g, [G EXCEPT !.tmp = size,
                            !.pc = IF G.pc = "del_rd" THEN "del_wr" ELSE "add_wr"])
    /\ UNCHANGED <<backend, capacity, list, table, size, files, hung, recency, last, cacheVars>>

\* cl.size -= n and cl.size += n: the write of cl.size
SizeWrite(g) ==
    LET G == goroutines[g] IN
    /\ G.pc \in {"del_wr", "add_wr"}
    /\ IF G.pc = "del_wr"
       THEN /\ size' = G.tmp - (StorableSize(G.ent) + KeyLen(G.dkey))
            /\ Becomes(g, Returned(G))
       ELSE /\ size' = G.tmp + (StorableSize(G.ent) + KeyLen(G.key))
            /\ Becomes(g, [G EXCEPT !.pc = "trim"])
    /\ UNCHANGED <<backend, capacity, list, table, files, hung, recency, last, cacheVars>>

\* DiskStorage.Store: os.Create(path) truncates the file of the key
Create(g) ==
    LET G == goroutines[g] IN
    /\ G.pc = "create"
    /\ files' = [files EXCEPT ![G.key] = <<>>]
    /\ Becomes(g, [G EXCEPT !.pc = "copy"])
    /\ UNCHANGED <<backend, capacity, list, table, size, hung, recency, last, cacheVars>>

\* Store: StorableCopy into the buffer or into the file
Copy(g) ==
    LET G == goroutines[g]
        c == StorableCopy(G.s)
    IN
    /\ G.pc = "copy"
    /\ files' = IF backend = "disk" THEN [files EXCEPT ![G.key] = c.data] ELSE files
    /\ Becomes(g, IF c.err THEN Done(G)
                  ELSE [G EXCEPT !.pc = "add",
                                 !.ent = IF backend = "memory"
                                         THEN NewByteStorable(c.data, G.s.statusCode, G.s.header)
                                         ELSE NewFileStorable(G.key, c.n, G.s.header,
                                                              G.s.statusCode)])
    /\ UNCHANGED <<backend, capacity, list, table, size, hung, recency, last, cacheVars>>

\* CappedLRUList.Add: cl.LRUList.Add(key, s)
ListAdd(g) ==
    LET G == goroutines[g]
        a == LRUAdd(list, table, G.key, G.ent)
    IN
    /\ G.pc = "add"
    /\ list' = a.list /\ table' = a.table
    /\ Becomes(g, [G EXCEPT !.pc = "add_rd"])
    /\ UNCHANGED <<backend, capacity, size, files, hung, recency, last, cacheVars>>

\* CappedLRUList.trim: the test of the loop; Store returns when it fails
TrimTest(g) ==
    LET G == goroutines[g] IN
    /\ G.pc = "trim"
    /\ Becomes(g, IF capacity # UnboundedCapacity /\ AboveCapacity(size, capacity)
                  THEN [G EXCEPT !.pc = "oldest"] ELSE Done(G))
    /\ UNCHANGED <<backend, capacity, list, table, size, files, hung, recency, last, cacheVars>>

\* CappedLRUList.trim: cl.Oldest(), then cl.Delete of its key; on an empty list
\* the key is "", nothing is deleted and the loop goes on
Oldest(g) ==
    LET G == goroutines[g] IN
    /\ G.pc = "oldest"
    /\ Becomes(g, [G EXCEPT !.pc = "del_get", !.ret = "trim",
                            !.dkey = IF list = <<>> THEN "" ELSE list[Len(list)].key])
    /\ hung' = (hung \/ list = <<>>)
    /\ UNCHANGED <<backend, capacity, list, table, size, files, recency, last, cacheVars>>

\* Get and GetMeta: ms.items.Get(key).  Get hands the storable to its caller,
\* who reads the body later
GetStep(g) ==
    LET G == goroutines[g]
        got == LRUGet(list, table, G.key)
    IN
    /\ G.pc = "get"
    /\ list' = got.list
    /\ Becomes(g, IF got.found /\ G.op = "Get"
                  THEN [G EXCEPT !.pc = "hold", !.ent = got.storable,
                                 !.want = ReadAll(got.storable, files)]
                  ELSE Done(G))
    /\ last' = Call(G.op, G.key, <<>>, ~got.found, got.found, 0)
    /\ UNCHANGED <<backend, capacity, table, size, files, hung, recency, cacheVars>>

\* the caller of Get reads the body through Storable.Reader() to the end
Read(g) ==
    LET G == goroutines[g] IN
    /\ G.pc = "hold"
    /\ last' = [op |-> "Read", key |-> G.key, got |-> ReadAll(G.ent, files),
                want |-> G.want, live |-> G.key \in table]
    /\ Becomes(g, Done(G))
    /\ UNCHANGED <<backend, capacity, list, table, size, files, hung, recency, cacheVars>>

\* Freshen: ms.items.Get(key), then header and status code of the storable it
\* got are assigned
FreshenStep(g) ==
    LET G == goroutines[g]
        got == LRUGet(list, table, G.key)
    IN
    /\ G.pc = "freshen"
    /\ list' = IF got.found
               THEN [got.list EXCEPT ![1].storable.header = G.s.header,
                                     ![1].storable.statusCode = G.s.statusCode]
               ELSE got.list
    /\ Becomes(g, Done(G))
    /\ UNCHANGED <<backend, capacity, table, size, files, hung, recency, last, cacheVars>>

BeginAny == \E g \in Goroutines : Begin(g)

ExistsAny == \E g \in Goroutines : Exists(g)

DeleteGetAny == \E g \in Goroutines : DeleteGet(g)

DeleteRemoveAny == \E g \in Goroutines : DeleteRemove(g)

SizeReadAny == \E g \in Goroutines : SizeRead(g)

SizeWriteAny == \E g \in Goroutines : SizeWrite(g)

CreateAny == \E g \in Goroutines : Create(g)

CopyAny == \E g \in Goroutines : Copy(g)

ListAddAny == \E g \in Goroutines : ListAdd(g)

TrimTestAny == \E g \in Goroutines : TrimTest(g)

OldestAny == \E g \in Goroutines : Oldest(g)

GetStepAny == \E g \in Goroutines : GetStep(g)

ReadAny == \E g \in Goroutines : Read(g)

FreshenStepAny == \E g \in Goroutines : FreshenStep(g)

NextConcurrent ==
    \/ BeginAny \/ ExistsAny \/ DeleteGetAny \/ DeleteRemoveAny
    \/ SizeReadAny \/ SizeWriteAny \/ CreateAny \/ CopyAny \/ ListAddAny
    \/ TrimTestAny \/ OldestAny \/ GetStepAny \/ ReadAny \/ FreshenStepAny

SpecConcurrent == InitConcurrent /\ [][NextConcurrent]_vars

(***************************************************************************)
(* Properties of package storage with concurrent callers                   *)
(***************************************************************************)

\* no call is in progress
Quiet == \A g \in Goroutines : goroutines[g].pc = "idle"

\* C24: whatever the interleaving of concurrent calls, each takes effect
\* atomically: in every reachable state in which no call is half-way, the
\* table and the list hold the same keys, each once, and the tracked size is
\* the sum of the sizes of the live entries
C24_Original ==
    Quiet =>
        /\ Range(LRUKeys(list)) = table
        /\ \A k \in StorageKeys : Occurrences(list, k) = (IF k \in table THEN 1 ELSE 0)
        /\ size = LiveSize(list)

\* C26: a body handle obtained from Get keeps yielding the bytes that were
\* stored under the key at the time of the Get, on either backend, whatever
\* was evicted, deleted or stored before the reader read it
C26_Original == last.op = "Read" => last.got = last.want

(***************************************************************************)
(* Part VIII: the Cache with concurrent callers.  Cache has no lock: a     *)
(* Store is four file operations (body and header file, each truncated on  *)
(* open and then written) and a Retrieve is an open of the body file, a    *)
(* read of the header file, and the caller's read of the body.             *)
(***************************************************************************)

\* the key the concurrent callers store and retrieve
PageKey == NewKey("GET", Url)

\* the calls each goroutine makes at most
MaxCacheCalls == 2

\* the resource of a version of the page: its body, and its entity tag
Page(v) == NewResource(200, Body(v, "en"), [EmptyHeader EXCEPT !.Etag = <<v, "en">>])

\* a header file with no bytes (a body file with none holds EmptyBody)
Truncated == [truncated |-> TRUE]

\* a goroutine that runs no call of the Cache.  Of a running one: res, the
\* resource Store got; opened, the bytes of the body file when Retrieve opened
\* it; h, the headers Retrieve read; had, whether a Store of the key had
\* returned when the Retrieve began; stored, whether this goroutine has
\* returned from a Store
CacheIdle ==
    [pc |-> "idle", res |-> NoResource, opened |-> EmptyBody, h |-> EmptyHeader,
     had |-> FALSE, stored |-> FALSE, n |-> 0]

\* the goroutine G has returned from its call
CacheDone(G) == [CacheIdle EXCEPT !.n = G.n, !.stored = G.stored]

\* what a Retrieve returned: ErrNotFoundInCache, another error, or a resource
RetrieveResult(G, found, err, body, h) ==
    [op |-> "Retrieve", found |-> found, err |-> err, body |-> body, h |-> h, had |-> G.had]

InitRetrieve ==
    /\ backend = "memory" /\ capacity = UnboundedCapacity /\ list = <<>> /\ table = {}
    /\ size = 0 /\ files = [k \in StorageKeys |-> <<>>] /\ hung = FALSE /\ recency = <<>>
    /\ goroutines = [g \in Goroutines |-> CacheIdle]
    /\ last = RetrieveResult(CacheIdle, FALSE, FALSE, EmptyBody, EmptyHeader)
    /\ clock = 0
    /\ bodyFiles = NewCache.body /\ headerFiles = NewCache.header /\ stale = NewCache.stale
    /\ pending = <<>> /\ upstream = <<>> /\ hShared = FALSE /\ marked = <<>>

\* a goroutine calls Cache.Store(res, key): ioutil.ReadAll(res)
BeginStore(g) ==
    /\ goroutines[g].pc = "idle"
    /\ goroutines[g].n < MaxCacheCalls
    /\ \E v \in 1..MaxVersion :
          Becomes(g, [goroutines[g] EXCEPT !.pc = "body_open", !.res = Page(v), !.n = @ + 1])
    /\ UNCHANGED <<backend, capacity, list, table, size, files, hung, recency, last, cacheVars>>

\* a goroutine calls Cache.Retrieve(key)
BeginRetrieve(g) ==
    /\ goroutines[g].pc = "idle"
    /\ goroutines[g].n < MaxCacheCalls
    /\ Becomes(g, [goroutines[g] EXCEPT !.pc = "open", !.n = @ + 1,
                       !.had = \E w \in Goroutines : goroutines[w].stored])
    /\ UNCHANGED <<backend, capacity, list, table, size, files, hung, recency, last, cacheVars>>

\* Cache.Store: delete(c.stale, key), and storeBody's vfsWrite opens the body
\* file with O_CREATE|O_TRUNC
StoreBodyOpen(g) ==
    LET G == goroutines[g] IN
    /\ G.pc = "body_open"
    /\ stale' = Drop(stale, PageKey)
    /\ bodyFiles' = Put(bodyFiles, hashKey(PageKey), EmptyBody)
    /\ Becomes(g, [G EXCEPT !.pc = "body_copy"])
    /\ UNCHANGED <<backend, capacity, list, table, size, files, hung, recency, last,
                   clock, headerFiles, pending, upstream, hShared, marked>>

\* storeBody: io.Copy into the body file
StoreBodyCopy(g) ==
    LET G == goroutines[g] IN
    /\ G.pc = "body_copy"
    /\ bodyFiles' = storeBody(TheCache, G.res.body, PageKey).body
    /\ Becomes(g, [G EXCEPT !.pc = "header_open"])
    /\ UNCHANGED <<backend, capacity, list, table, size, files, hung, recency, last,
                   clock, headerFiles, stale, pending, upstream, hShared, marked>>

\* storeHeaders: vfsWrite opens the header file with O_CREATE|O_TRUNC
StoreHeaderOpen(g) ==
    LET G == goroutines[g] IN
    /\ G.pc = "header_open"
    /\ headerFiles' = Put(headerFiles, hashKey(PageKey), Truncated)
    /\ Becomes(g, [G EXCEPT !.pc = "header_copy"])
    /\ UNCHANGED <<backend, capacity, list, table, size, files, hung, recency, last,
                   clock, bodyFiles, stale, pending, upstream, hShared, marked>>

\* storeHeaders: io.Copy into the header file, and Store returns
StoreHeaderCopy(g) ==
    LET G == goroutines[g] IN
    /\ G.pc = "header_copy"
    /\ headerFiles' = storeHeaders(TheCache, G.res.header, PageKey).header
    /\ Becomes(g, [CacheDone(G) EXCEPT !.stored = TRUE])
    /\ UNCHANGED <<backend, capacity, list, table, size, files, hung, recency, last,
                   clock, bodyFiles, stale, pending, upstream, hShared, marked>>

\* Cache.Retrieve: c.fs.Open of the body file
RetrieveOpen(g) ==
    LET G == goroutines[g] IN
    /\ G.pc = "open"
    /\ IF hashKey(PageKey) \in DOMAIN bodyFiles
       THEN /\ Becomes(g, [G EXCEPT !.pc = "header", !.opened = bodyFiles[hashKey(PageKey)]])
            /\ last' = last
       ELSE /\ Becomes(g, CacheDone(G))
            /\ last' = RetrieveResult(G, FALSE, FALSE, EmptyBody, EmptyHeader)
    /\ UNCHANGED <<backend, capacity, list, table, size, files, hung, recency, cacheVars>>

\* Cache.Retrieve: c.Header(key); readHeaders fails on a file with no bytes
RetrieveHeader(g) ==
    LET G == goroutines[g]
        name == hashKey(PageKey)
    IN
    /\ G.pc = "header"
    /\ IF name \notin DOMAIN headerFiles
       THEN /\ Becomes(g, CacheDone(G))
            /\ last' = RetrieveResult(G, FALSE, FALSE, EmptyBody, EmptyHeader)
       ELSE IF headerFiles[name] = Truncated
       THEN /\ Becomes(g, CacheDone(G))
            /\ last' = RetrieveResult(G, FALSE, TRUE, EmptyBody, EmptyHeader)
       ELSE /\ Becomes(g, [G EXCEPT !.pc = "read", !.h = readHeaders(headerFiles[name])])
            /\ last' = last
    /\ UNCHANGED <<backend, capacity, list, table, size, files, hung, recency, cacheVars>>

\* the caller of Retrieve reads the body through the open file: the bytes the
\* file had when it was opened, or those it has now
RetrieveRead(g) ==
    LET G == goroutines[g] IN
    /\ G.pc = "read"
    /\ \E b \in {G.opened, bodyFiles[hashKey(PageKey)]} :
          last' = RetrieveResult(G, TRUE, FALSE, b, G.h)
    /\ Becomes(g, CacheDone(G))
    /\ UNCHANGED <<backend, capacity, list, table, size, files, hung, recency, cacheVars>>

BeginStoreAny == \E g \in Goroutines : BeginStore(g)

BeginRetrieveAny == \E g \in Goroutines : BeginRetrieve(g)

StoreBodyOpenAny == \E g \in Goroutines : StoreBodyOpen(g)

StoreBodyCopyAny == \E g \in Goroutines : StoreBodyCopy(g)

StoreHeaderOpenAny == \E g \in Goroutines : StoreHeaderOpen(g)

StoreHeaderCopyAny == \E g \in Goroutines : StoreHeaderCopy(g)

RetrieveOpenAny == \E g \in Goroutines : RetrieveOpen(g)

RetrieveHeaderAny == \E g \in Goroutines : RetrieveHeader(g)

RetrieveReadAny == \E g \in Goroutines : RetrieveRead(g)

NextRetrieve ==
    \/ BeginStoreAny \/ BeginRetrieveAny
    \/ StoreBodyOpenAny \/ StoreBodyCopyAny \/ StoreHeaderOpenAny \/ StoreHeaderCopyAny
    \/ RetrieveOpenAny \/ RetrieveHeaderAny \/ RetrieveReadAny

SpecRetrieve == InitRetrieve /\ [][NextRetrieve]_vars

(***************************************************************************)
(* Properties of the Cache with concurrent callers                         *)
(***************************************************************************)

\* the body and the headers are those of one stored resource
Complete(body, h) == \E v \in 1..MaxVersion : body = Page(v).body /\ h = Page(v).header

\* C25: a retrieve of a key that runs while a store overwrites the key returns
\* the complete old resource or the complete new one: never NotFound for a key
\* that held an entry throughout, never the headers of one with the body of
\* the other
C25_Original ==
    (last.op = "Retrieve" /\ last.had) =>
        /\ last.found
        /\ Complete(last.body, last.h)

(***************************************************************************)
(* Part IX: the key functions of key.go.  A URL is the sequence of its     *)
(* scheme, host, path and query, which the URL string is the concatenation *)
(* of; the MD5 digest of a string is modelled as the string.               *)
(***************************************************************************)

\* the parts URLs are made of, each in two spellings that differ by letter
\* case alone, and the paths also in one that differs by more
Schemes == {"http", "HTTP"}

Hosts == {"example.org", "Example.org"}

Paths == {"/test", "/Test", "/test/llamas"}

Queries == {"?q=a", "?q=A"}

KeyUrls == {<<sc, ho, pa, qu>> : sc \in Schemes, ho \in Hosts, pa \in Paths, qu \in Queries}

KeyMethods == {"GET", "HEAD"}

\* strings.ToLower on the strings of the model
ToLower(str) ==
    CASE str = "HTTP" -> "http"
      [] str = "Example.org" -> "example.org"
      [] str = "/Test" -> "/test"
      [] str = "?q=A" -> "?q=a"
      [] str = "GET" -> "get"
      [] str = "HEAD" -> "head"
      [] OTHER -> str

\* CanonicalUrl: strings.ToLower of the URL string, which lowercases every part
CanonicalUrl(url) == [i \in DOMAIN url |-> ToLower(url[i])]

\* Key: the digest of the lowercased method followed by the canonical URL
Key(method, url) == <<ToLower(method)>> \o CanonicalUrl(url)

\* the canonical URL of the specification: scheme and host lowercased, path and
\* query as they are
SchemeHostLowered(url) == <<ToLower(url[1]), ToLower(url[2]), url[3], url[4]>>

InitKey ==
    /\ backend = "memory" /\ capacity = UnboundedCapacity /\ list = <<>> /\ table = {}
    /\ size = 0 /\ files = [k \in StorageKeys |-> <<>>] /\ hung = FALSE /\ recency = <<>>
    /\ goroutines = <<>>
    /\ \E m1 \in KeyMethods, m2 \in KeyMethods, u1 \in KeyUrls, u2 \in KeyUrls :
          last = [op |-> "requests", m1 |-> m1, u1 |-> u1, m2 |-> m2, u2 |-> u2,
                  k1 |-> <<>>, k2 |-> <<>>]
    /\ clock = 0
    /\ bodyFiles = NewCache.body /\ headerFiles = NewCache.header /\ stale = NewCache.stale
    /\ pending = <<>> /\ upstream = <<>> /\ hShared = FALSE /\ marked = <<>>

\* the keys of the two requests are computed
KeyBoth ==
    /\ last.op = "requests"
    /\ last' = [last EXCEPT !.op = "Key", !.k1 = Key(last.m1, last.u1),
                            !.k2 = Key(last.m2, last.u2)]
    /\ UNCHANGED <<storageVars, cacheVars>>

NextKey == KeyBoth

SpecKey == InitKey /\ [][NextKey]_vars

\* C27: two requests get the same primary key if and only if they have the same
\* method and URLs that are equal after lowercasing only the scheme and the
\* host: URLs that differ in path or query, by letter case alone too, get
\* different keys
C27_Original ==
    last.op = "Key" =>
        ((last.k1 = last.k2) <=>
            (last.m1 = last.m2 /\ SchemeHostLowered(last.u1) = SchemeHostLowered(last.u2)))

(***************************************************************************)
(* Part X: headersEqual applied to pairs of headers                        *)
(***************************************************************************)

\* the values of a validation header: absent, or one of two values
ValidationValues(n) ==
    IF n = "Etag" THEN {<<>>, <<1, "en">>, <<2, "en">>} ELSE {NoTime, 1, 2}

\* the headers that carry validation headers and nothing else
ValidationHeaderSets ==
    {[EmptyHeader EXCEPT !.Etag = e, !.ContentMD5 = m, !.LastModified = l,
                         !.ContentLength = c] :
        e \in ValidationValues("Etag"), m \in ValidationValues("ContentMD5"),
        l \in ValidationValues("LastModified"), c \in ValidationValues("ContentLength")}

InitValidation ==
    /\ backend = "memory" /\ capacity = UnboundedCapacity /\ list = <<>> /\ table = {}
    /\ size = 0 /\ files = [k \in StorageKeys |-> <<>>] /\ hung = FALSE /\ recency = <<>>
    /\ goroutines = <<>>
    /\ \E h1 \in ValidationHeaderSets, h2 \in ValidationHeaderSets :
          last = [op |-> "headers", h1 |-> h1, h2 |-> h2, equal |-> FALSE]
    /\ clock = 0
    /\ bodyFiles = NewCache.body /\ headerFiles = NewCache.header /\ stale = NewCache.stale
    /\ pending = <<>> /\ upstream = <<>> /\ hShared = FALSE /\ marked = <<>>

\* Validator.Validate compares the stored headers with those of the response
CompareHeaders ==
    /\ last.op = "headers"
    /\ last' = [last EXCEPT !.op = "headersEqual", !.equal = headersEqual(last.h1, last.h2)]
    /\ UNCHANGED <<storageVars, cacheVars>>

NextValidation == CompareHeaders

SpecValidation == InitValidation /\ [][NextValidation]_vars

\* a header is present in both with different values, or it is ETag or
\* Last-Modified and present in the new headers alone
Mismatch(h1, h2) ==
    \/ \E n \in {"Etag", "ContentMD5", "LastModified", "ContentLength"} :
          h1[n] # Absent(n) /\ h2[n] # Absent(n) /\ h1[n] # h2[n]
    \/ \E n \in {"Etag", "LastModified"} : h1[n] = Absent(n) /\ h2[n] # Absent(n)

\* C31: validation reports changed if and only if one of ETag, Content-MD5,
\* Last-Modified, Content-Length is present in both the stored and the new
\* response with different values, or ETag or Last-Modified is present in the
\* new response but absent from the stored one; a Content-MD5 or Content-Length
\* present only in the new response is not a change
C31_Original ==
    last.op = "headersEqual" => (~last.equal <=> Mismatch(last.h1, last.h2))

(***************************************************************************)
(* Part XI: the Handler in front of an origin that stops answering: the    *)
(* upstream handler then writes 502 with no header of the origin.          *)
(***************************************************************************)

OutageOrigins ==
    {Origin(Directive("max-age", "1"), "", 200, e, "") : e \in BOOLEAN} \cup
    {Origin(Both(Directive("max-age", "2"), Word("must-revalidate")), "", 200, TRUE, "")}

OutageRequests == {Req("GET", "en", <<>>), Req("HEAD", "en", <<>>)}

InitOutage ==
    /\ backend = "memory" /\ capacity = UnboundedCapacity /\ list = <<>> /\ table = {}
    /\ size = 0 /\ files = [k \in StorageKeys |-> <<>>] /\ hung = FALSE /\ recency = <<>>
    /\ goroutines = <<>>
    /\ last = [op |-> "init"]
    /\ clock = 0
    /\ bodyFiles = NewCache.body /\ headerFiles = NewCache.header /\ stale = NewCache.stale
    /\ pending = <<>> /\ marked = <<>>
    /\ hShared \in BOOLEAN
    /\ upstream \in OutageOrigins

\* the origin stops answering, and answers again
OriginDown ==
    /\ upstream' = [upstream EXCEPT !.down = ~@]
    /\ last' = [op |-> "OriginDown"]
    /\ UNCHANGED <<storageVars, clock, bodyFiles, headerFiles, stale, pending, hShared, marked>>

OutageRequestAny == \E r \in OutageRequests : Request(r)

NextOutage == OutageRequestAny \/ StoreDoneAny \/ Wait \/ OriginChange \/ OriginDown

SpecOutage == InitOutage /\ [][NextOutage]_vars

\* the handler validates the resource it finds for r while the origin is down
ValidatedWhileDown(r) ==
    LET cReq == newCacheRequest(r)
        found == lookup(TheCache, cReq)
    IN /\ upstream.down
       /\ requestIsCacheable(cReq) /\ found.found
       /\ needsValidation(found.res, cReq, clock)

\* C32: if the validation request gets no usable origin response, the result
\* of the validation is changed: the request falls through to the pass, and
\* status, headers and body of the stored resource are what they were
C32_Original ==
    \A r \in OutageRequests :
        ValidatedWhileDown(r) =>
            /\ Handled(r).path = "changed"
            /\ \A k \in CacheKeys :
                  CacheRetrieve(Handled(r).cache, k) = CacheRetrieve(TheCache, k)

(***************************************************************************)
(* Part XII: serveUpstream and its responseWriter.  The upstream handler   *)
(* runs in the worker and calls WriteHeader and Write on the               *)
(* responseWriter; a goroutine waits for the resource on the unbuffered    *)
(* channel rw.Resource and, if the resource is cacheable, reads its body   *)
(* from the pipe.  goroutines holds where the two are: script is what the  *)
(* upstream handler still does, sent counts the resources received from    *)
(* the channel, closed tells whether the write end of the pipe is closed,  *)
(* writes is the counter of the WaitGroup Writes.                          *)
(***************************************************************************)

\* the calls an upstream handler makes at most
MaxScript == 4

\* what an upstream handler does with its ResponseWriter before it returns
Scripts ==
    UNION {[1..n -> {"WriteHeader", "Write"}] : n \in 0..MaxScript}

InitStreamer ==
    /\ backend = "memory" /\ capacity = UnboundedCapacity /\ list = <<>> /\ table = {}
    /\ size = 0 /\ files = [k \in StorageKeys |-> <<>>] /\ hung = FALSE /\ recency = <<>>
    /\ \E sc \in Scripts, cacheable \in BOOLEAN :
          goroutines = [worker |-> "start", waiter |-> "none", script |-> sc,
                        cacheable |-> cacheable, sent |-> 0, closed |-> FALSE,
                        writes |-> 0, read |-> 0]
    /\ last = [op |-> "init"]
    /\ clock = 0
    /\ bodyFiles = NewCache.body /\ headerFiles = NewCache.header /\ stale = NewCache.stale
    /\ pending = <<>> /\ upstream = <<>> /\ hShared = FALSE /\ marked = <<>>

\* a step of serveUpstream changes goroutines alone
Streams(rec) ==
    /\ goroutines' = rec
    /\ UNCHANGED <<backend, capacity, list, table, size, files, hung, recency, last, cacheVars>>

\* serveUpstream: Writes.Add(1), NewResourceWriter, and the goroutine starts
\* with res := <-resRw.Resource
ServeUpstream ==
    /\ goroutines.worker = "start"
    /\ Streams([goroutines EXCEPT !.worker = "run", !.waiter = "receive", !.writes = @ + 1])

\* responseWriter.WriteHeader: rw.Resource <- res, a send on an unbuffered
\* channel, which goes through when the goroutine is receiving
WriteHeader ==
    /\ goroutines.worker = "run"
    /\ goroutines.script # <<>> /\ Head(goroutines.script) = "WriteHeader"
    /\ goroutines.waiter = "receive"
    /\ Streams([goroutines EXCEPT !.script = Tail(@), !.sent = @ + 1,
                                  !.waiter = IF goroutines.cacheable THEN "set" ELSE "done",
                                  !.writes = IF goroutines.cacheable THEN @ ELSE @ - 1])

\* responseWriter.Write: rw.pw.Write(b) on the pipe, which returns when a reader
\* has consumed the bytes: h.store.Set reads the body of the resource
Write ==
    /\ goroutines.worker = "run"
    /\ goroutines.script # <<>> /\ Head(goroutines.script) = "Write"
    /\ goroutines.waiter = "set"
    /\ Streams([goroutines EXCEPT !.script = Tail(@), !.read = @ + 1])

\* the upstream handler returns, and the deferred resRw.Close() closes the
\* write end of the pipe
Return ==
    /\ goroutines.worker = "run"
    /\ goroutines.script = <<>>
    /\ Streams([goroutines EXCEPT !.worker = "done", !.closed = TRUE])

\* h.store.Set reads the end of the body, and Writes.Done()
SetDone ==
    /\ goroutines.waiter = "set"
    /\ goroutines.closed
    /\ Streams([goroutines EXCEPT !.waiter = "done", !.writes = @ - 1])

NextStreamer == ServeUpstream \/ WriteHeader \/ Write \/ Return \/ SetDone

SpecStreamer == InitStreamer /\ [][NextStreamer]_vars

\* every step that can be taken is taken in the end: both goroutines run
FairStreamer == SpecStreamer /\ WF_vars(NextStreamer)

(***************************************************************************)
(* Properties of serveUpstream                                             *)
(***************************************************************************)

\* C35: on every run of the upstream worker the wait for the headers ends, by
\* the first WriteHeader or at the exit of the worker when WriteHeader was
\* never called, and a second WriteHeader or a body write that precedes
\* WriteHeader does not block forever: the worker returns, and the goroutine
\* that waits for the resource is waiting no more
C35_Original == <>(goroutines.worker = "done" /\ goroutines.waiter # "receive")

(***************************************************************************)
(* Part XIII: the store goroutines of storeResource and the WaitGroup      *)
(* Writes.  goroutines holds Writes, the counter of the WaitGroup; workers,*)
(* the goroutines storeResource started, each with the resource it stores  *)
(* and where it is; join, where a caller of Writes.Wait() is; before, the  *)
(* workers dispatched when Wait was called.  A write of a file may fail    *)
(* (c.fs.OpenFile returns an error), and Store then returns the error.     *)
(***************************************************************************)

\* the stores dispatched at most
MaxDispatch == 3

InitWrites ==
    /\ backend = "memory" /\ capacity = UnboundedCapacity /\ list = <<>> /\ table = {}
    /\ size = 0 /\ files = [k \in StorageKeys |-> <<>>] /\ hung = FALSE /\ recency = <<>>
    /\ goroutines = [Writes |-> 0, workers |-> <<>>, join |-> "none", before |-> {}]
    /\ last = [op |-> "init"]
    /\ clock = 0
    /\ bodyFiles = NewCache.body /\ headerFiles = NewCache.header /\ stale = NewCache.stale
    /\ pending = <<>> /\ upstream = <<>> /\ hShared = FALSE /\ marked = <<>>

\* Writes.Wait() returns early, whatever the counter
WritesWaitEarly(n) == TRUE

\* Writes.Wait() returns when the counter is zero
WritesWait(n) == n = 0

\* what neither the workers nor the join change
WritesRest == <<backend, capacity, list, table, size, files, hung, recency, clock,
                pending, upstream, hShared, marked>>

\* Handler.storeResource: Writes.Add(1), then the goroutine is started
Dispatch ==
    /\ goroutines.join = "none"
    /\ Len(goroutines.workers) < MaxDispatch
    /\ \E v \in 1..MaxVersion :
          goroutines' = [goroutines EXCEPT !.Writes = @ + 1,
                             !.workers = Append(@, [pc |-> "start", res |-> Page(v)])]
    /\ last' = [op |-> "Dispatch"]
    /\ UNCHANGED <<bodyFiles, headerFiles, stale, WritesRest>>

\* the goroutine runs Cache.Store as far as storeBody: delete(c.stale, key) and
\* the body file is written, or the write fails, Store returns the error and
\* the deferred Writes.Done() runs
WorkerBody(i, ok) ==
    /\ i \in 1..Len(goroutines.workers)
    /\ goroutines.workers[i].pc = "start"
    /\ stale' = Drop(stale, PageKey)
    /\ headerFiles' = headerFiles
    /\ IF ok
       THEN /\ bodyFiles' = storeBody(TheCache, goroutines.workers[i].res.body, PageKey).body
            /\ goroutines' = [goroutines EXCEPT !.workers[i].pc = "header"]
       ELSE /\ bodyFiles' = bodyFiles
            /\ goroutines' = [goroutines EXCEPT !.workers[i].pc = "failed", !.Writes = @ - 1]
    /\ last' = [op |-> "WorkerBody", i |-> i, ok |-> ok]
    /\ UNCHANGED WritesRest

\* storeHeaders, Store returns, and the deferred Writes.Done() runs
WorkerHeader(i, ok) ==
    /\ i \in 1..Len(goroutines.workers)
    /\ goroutines.workers[i].pc = "header"
    /\ IF ok
       THEN /\ headerFiles' = storeHeaders(TheCache, goroutines.workers[i].res.header, PageKey).header
            /\ goroutines' = [goroutines EXCEPT !.workers[i].pc = "done", !.Writes = @ - 1]
       ELSE /\ headerFiles' = headerFiles
            /\ goroutines' = [goroutines EXCEPT !.workers[i].pc = "failed", !.Writes = @ - 1]
    /\ last' = [op |-> "WorkerHeader", i |-> i, ok |-> ok]
    /\ UNCHANGED <<bodyFiles, stale, WritesRest>>

\* a caller joins: Writes.Wait() is called
JoinCall ==
    /\ goroutines.join = "none"
    /\ goroutines' = [goroutines EXCEPT !.join = "waiting",
                                        !.before = 1..Len(goroutines.workers)]
    /\ last' = [op |-> "JoinCall"]
    /\ UNCHANGED <<bodyFiles, headerFiles, stale, WritesRest>>

\* Writes.Wait() returns
JoinReturn ==
    /\ goroutines.join = "waiting"
    /\ WritesWait(goroutines.Writes)
    /\ goroutines' = [goroutines EXCEPT !.join = "returned"]
    /\ last' = [op |-> "JoinReturn"]
    /\ UNCHANGED <<bodyFiles, headerFiles, stale, WritesRest>>

\* the caller retrieves the key after the join
JoinRetrieve ==
    /\ goroutines.join = "returned"
    /\ goroutines' = [goroutines EXCEPT !.join = "none"]
    /\ last' = [op |-> "JoinRetrieve", got |-> CacheRetrieve(TheCache, PageKey)]
    /\ UNCHANGED <<bodyFiles, headerFiles, stale, WritesRest>>

WorkerBodyAny == \E i \in 1..MaxDispatch, ok \in BOOLEAN : WorkerBody(i, ok)

WorkerHeaderAny == \E i \in 1..MaxDispatch, ok \in BOOLEAN : WorkerHeader(i, ok)

NextWrites ==
    Dispatch \/ WorkerBodyAny \/ WorkerHeaderAny \/ JoinCall \/ JoinReturn \/ JoinRetrieve

SpecWrites == InitWrites /\ [][NextWrites]_vars

\* the goroutines run: a step that can be taken is taken in the end
FairWrites == SpecWrites /\ WF_vars(NextWrites)

(***************************************************************************)
(* Properties of the pending writes                                        *)
(***************************************************************************)

\* the workers that have not returned
Running == {i \in 1..Len(goroutines.workers) : goroutines.workers[i].pc \in {"start", "header"}}

\* the counter counts the workers dispatched and not ended, from before the
\* worker starts until its write ends, whether it failed or not
Counted == goroutines.Writes = Cardinality(Running) /\ goroutines.Writes >= 0

\* a retrieve of the key finds a resource
Visible == CacheRetrieve(TheCache, PageKey).found

MapIdle == [pc |-> "idle", op |-> "none", n |-> 0]

InitMap ==
    /\ backend = "memory" /\ capacity = UnboundedCapacity /\ list = <<>> /\ table = {}
    /\ size = 0 /\ files = [k \in StorageKeys |-> <<>>] /\ hung = FALSE /\ recency = <<>>
    /\ goroutines = [g \in Goroutines |-> MapIdle]
    /\ last = [op |-> "init"]
    /\ clock = 0
    /\ bodyFiles = NewCache.body /\ headerFiles = NewCache.header /\ stale = NewCache.stale
    /\ pending = <<>> /\ upstream = <<>> /\ hShared = FALSE /\ marked = <<>>

\* the map operation of each call: delete(c.stale, key) in Store,
\* c.stale[key] in Retrieve, c.stale[key] = Clock() in Invalidate
MapOps == {"Store", "Retrieve", "Invalidate"}

\* the map operations that write
MapWrites == {"Store", "Invalidate"}

\* a goroutine calls Store, Retrieve or Invalidate and runs up to the statement
\* that uses c.stale; a Retrieve that finds no files returns before it
MapCall(g, op) ==
    /\ goroutines[g].pc = "idle"
    /\ goroutines[g].n < MaxCacheCalls
    /\ IF op = "Retrieve" /\ ~CacheRetrieve(TheCache, PageKey).found
       THEN /\ Becomes(g, [goroutines[g] EXCEPT !.n = @ + 1])
            /\ last' = [op |-> "Retrieve", g |-> g, found |-> FALSE, stale |-> FALSE]
       ELSE /\ Becomes(g, [goroutines[g] EXCEPT !.pc = "call", !.op = op, !.n = @ + 1])
            /\ last' = last
    /\ UNCHANGED <<backend, capacity, list, table, size, files, hung, recency, cacheVars>>

\* the goroutine begins its map operation: nothing in the code makes it wait
MapEnter(g) ==
    /\ goroutines[g].pc = "call"
    /\ Becomes(g, [goroutines[g] EXCEPT !.pc = "map"])
    /\ UNCHANGED <<backend, capacity, list, table, size, files, hung, recency, last, cacheVars>>

\* the map operation ends and the call runs to its return: Store writes the
\* body and the headers, Retrieve marks the resource stale if it read a marker
\* (a read that ran during a write of another goroutine saw the marker or not),
\* Invalidate has set the marker
MapLeave(g) ==
    LET G == goroutines[g]
        raced == \E w \in Goroutines \ {g} :
                    goroutines[w].pc = "map" /\ goroutines[w].op \in MapWrites
    IN
    /\ G.pc = "map"
    /\ Becomes(g, [MapIdle EXCEPT !.n = G.n])
    /\ CASE G.op = "Store" ->
              \E v \in 1..MaxVersion :
                 /\ SetCache(CacheStore(TheCache, Page(v), <<PageKey>>))
                 /\ last' = [op |-> "Store", g |-> g]
         [] G.op = "Invalidate" ->
              /\ SetCache(Invalidate(TheCache, <<PageKey>>, clock))
              /\ last' = [op |-> "Invalidate", g |-> g]
         [] OTHER ->
              /\ \E seen \in {PageKey \in DOMAIN stale} \cup (IF raced THEN BOOLEAN ELSE {}) :
                    last' = [op |-> "Retrieve", g |-> g, found |-> TRUE, stale |-> seen]
              /\ UNCHANGED <<bodyFiles, headerFiles, stale>>
    /\ UNCHANGED <<backend, capacity, list, table, size, files, hung, recency,
                   clock, pending, upstream, hShared, marked>>

MapCallAny == \E g \in Goroutines, op \in MapOps : MapCall(g, op)

MapEnterAny == \E g \in Goroutines : MapEnter(g)

MapLeaveAny == \E g \in Goroutines : MapLeave(g)

NextMap == MapCallAny \/ MapEnterAny \/ MapLeaveAny

SpecMap == InitMap /\ [][NextMap]_vars

(***************************************************************************)
(* Properties of the map Cache.stale                                       *)
(***************************************************************************)

\* C37: no two goroutines are in a map operation on c.stale at the same time,
\* whether they read (Retrieve) or write (Invalidate, Store)
C37_Original ==
    \A g, w \in Goroutines :
       goroutines[g].pc = "map" /\ goroutines[w].pc = "map" => g = w

(***************************************************************************)
(* Part XV: the Handler in front of an origin that sends Vary: *           *)
(***************************************************************************)

\* origins whose responses carry Vary: * and are otherwise cacheable
StarOrigins ==
    {Origin(Directive("max-age", "2"), "*", 200, TRUE, ""),
     Origin(Directive("max-age", "1"), "*", 200, FALSE, "")}

InitStar ==
    /\ backend = "memory" /\ capacity = UnboundedCapacity /\ list = <<>> /\ table = {}
    /\ size = 0 /\ files = [k \in StorageKeys |-> <<>>] /\ hung = FALSE /\ recency = <<>>
    /\ goroutines = <<>>
    /\ last = [op |-> "init"]
    /\ clock = 0
    /\ bodyFiles = NewCache.body /\ headerFiles = NewCache.header /\ stale = NewCache.stale
    /\ pending = <<>> /\ marked = <<>>
    /\ hShared \in BOOLEAN
    /\ upstream \in StarOrigins

SpecStar == InitStar /\ [][NextHandler]_vars

(***************************************************************************)
(* Properties of Vary: *                                                   *)
(***************************************************************************)

\* C38: a response carrying Vary: * is never stored, under the primary or a
\* secondary key, and no request is served it from the cache
C38_Original ==
    /\ \A name \in DOMAIN headerFiles : readHeaders(headerFiles[name]).Vary # "*"
    /\ last.op = "Request" /\ last.xcache = "HIT" => last.header.Vary # "*"

(***************************************************************************)
(* Properties of the lookup for a HEAD request                             *)
(***************************************************************************)

\* a HEAD request for the page in a language
HeadRequest(l) == Req("HEAD", l, <<>>)

\* the HEAD request's own key is absent and the stored GET entry of its URL,
\* whose response has a Vary header, serves it
HeadFromVaryingGet(r) ==
    /\ NewRequestKey(r) \notin DOMAIN bodyFiles
    /\ HeadFromGet(r)
    /\ GetEntry(r).res.header.Vary # ""

\* C39: when a HEAD request is served from a stored GET entry whose response
\* has a Vary header, the resource used is the one stored under the secondary
\* key of the HEAD request's own header values, and what a HIT serves is the
\* variant of the request's language
C39_Original ==
    \A l \in Langs :
        LET r == HeadRequest(l)
            out == Handled(r)
        IN HeadFromVaryingGet(r) =>
              /\ out.key = KeyVary(ForMethod(NewRequestKey(r), "GET"),
                                   GetEntry(r).res.header.Vary, r)
              /\ out.xcache = "HIT" => out.res.header.Etag[2] = l

(***************************************************************************)
(* Part XVI: concurrent stores.  The goroutines of Part VII, every call    *)
(* being a Store.                                                          *)
(***************************************************************************)

\* a caller calls Store
BeginStores(g) ==
    /\ goroutines[g].pc = "idle"
    /\ goroutines[g].n < CallsOf(g)
    /\ \E k \in ConcKeys, s \in ConcStorables :
          Becomes(g, [Idle EXCEPT !.pc = FirstStep("Store"), !.op = "Store", !.key = k,
                                  !.s = s, !.n = goroutines[g].n + 1])
    /\ UNCHANGED <<backend, capacity, list, table, size, files, hung, recency, last, cacheVars>>

BeginStoresAny == \E g \in Goroutines : BeginStores(g)

NextStores ==
    \/ BeginStoresAny \/ ExistsAny \/ DeleteGetAny \/ DeleteRemoveAny
    \/ SizeReadAny \/ SizeWriteAny \/ CreateAny \/ CopyAny \/ ListAddAny
    \/ TrimTestAny \/ OldestAny

SpecStores == InitConcurrent /\ [][NextStores]_vars

(***************************************************************************)
(* Properties of the eviction loop                                         *)
(***************************************************************************)

\* a goroutine is in the body of trim's loop, having found the size above the
\* capacity, and no other call is half-way
InTrimAlone(g) ==
    /\ goroutines[g].pc = "oldest"
    /\ \A w \in Goroutines \ {g} : goroutines[w].pc = "idle"

\* C40: the eviction loop of a store terminates: whenever a store is in the
\* loop, the size being above the non-zero capacity, the list is not empty and
\* the deletion of its oldest entry makes the size smaller, under concurrent
\* stores as under sequential use
C40_Original ==
    \A g \in Goroutines :
       InTrimAlone(g) => list # <<>> /\ EntrySize(list[Len(list)]) > 0

====
